---- MODULE Spec2Model ----
(***************************************************************************)
(* BLE radio driver (chips/nrf52/src/radio.rs) and the BLE data-channel    *)
(* hopping engine (chips/nrf5x/src/ble_connection.rs).                     *)
(***************************************************************************)
EXTENDS Integers, Sequences, FiniteSets, TLC

VARIABLES
    \* ble_connection.rs
    conn,           \* the ConnectionData
    chm,            \* the channel map last expanded into it
    ret,            \* what the last next_channel() returned
    hist,           \* the calls of next_channel() since the map was set
    fresh,          \* hist holds every call since ConnectionData::new
    \* radio.rs
    radio,          \* the fields of the Radio struct
    regs,           \* the RADIO peripheral's registers
    ppi,            \* PPI.CHEN: the enabled PPI channels
    timer0,         \* TIMER0
    air,            \* the peripheral's progress through the packet on air
    TX_PAYLOAD,     \* static mut TX_PAYLOAD
    RX_PAYLOAD,     \* static mut RX_PAYLOAD
    log,            \* what the last operation did, in order
    outcome,        \* how the last operation ended
    calls,          \* the public operations called so far
    frame           \* the rx_client calls made for the frame on air

hopVars == <<conn, chm, ret, hist, fresh>>

radioVars == <<radio, regs, ppi, timer0, air, TX_PAYLOAD, RX_PAYLOAD, log,
               outcome, calls, frame>>

vars == <<hopVars, radioVars>>

(***************************************************************************)
(* ble_connection.rs : ConnectionData                                      *)
(***************************************************************************)

NUMBER_CHANNELS == 40

NUMBER_DATA_CHANNELS == NUMBER_CHANNELS - 3

\* chm: [u8; 5]
CHM_LEN == 5

\* u8 arithmetic
U8(x) == x % 256

\* the channel maps an LLData may carry (5 bytes, byte 0 bit 0 = channel 0)
ChmSet ==
    { <<255, 255, 255, 255, 31>>,      \* all 37 data channels
      <<255, 255, 255, 255, 0>>,       \* channels 0..31
      <<17, 17, 0, 0, 0>>,             \* channels 0, 4, 8, 12
      <<255, 255, 255, 255, 255>>,     \* all 40 bits, the reserved ones too
      <<3, 0, 0, 0, 32>>,              \* channels 0, 1 and reserved bit 37
      <<0, 0, 0, 0, 24>>,              \* channels 35, 36
      <<170, 85, 0, 129, 16>>,         \* a scattered map
      <<1, 0, 0, 0, 0>>,               \* one channel only
      <<0, 0, 0, 0, 0>> }              \* no channel at all

\* hop_and_sca: hops 5 bits, sca 3 bits
HopAndScaSet == (5..16) \cup {0, 37, 231}

\* what update_lldata is handed in hop_and_sca (it does not read it)
UpdateHopAndScaSet == {231}

LLDataSet == [chm : ChmSet, hop_and_sca : HopAndScaSet]

LLDataUpdateSet == [chm : ChmSet, hop_and_sca : UpdateHopAndScaSet]

\* the inner loop of expand_channel_map, flattened: k = i * 8 + j, byte is
\* chm[i] shifted right j times
RECURSIVE expand_loop(_, _, _, _, _)
expand_loop(map, k, byte, channels, number_used_channels) ==
    IF k = CHM_LEN * 8 THEN <<channels, number_used_channels>>
    ELSE LET b    == IF k % 8 = 0 THEN map[(k \div 8) + 1] ELSE byte
             bit  == b % 2
             used == IF bit = 1 THEN U8(number_used_channels + 1)
                                ELSE number_used_channels
         IN  expand_loop(map, k + 1, b \div 2,
                         [channels EXCEPT ![k] = bit], used)

expand_channel_map(map) ==
    expand_loop(map, 0, 0, [k \in 0..(NUMBER_CHANNELS - 1) |-> 0], 0)

\* expand_channel_map over the maps of ChmSet, computed once
expanded == [map \in ChmSet |-> expand_channel_map(map)]

new(lldata) ==
    LET e == expanded[lldata.chm]
    IN  [last_unmapped_channel |-> 0,
         channels              |-> e[1],
         number_used_channels  |-> e[2],
         hop_increment         |-> lldata.hop_and_sca % 32,
         conn_event_counter    |-> 0]

update_lldata(self, lldata) ==
    LET e == expanded[lldata.chm]
    IN  [self EXCEPT !.channels = e[1], !.number_used_channels = e[2]]

\* RadioChannel::from_channel_index: a RadioChannel is written as its
\* channel index
from_channel_index(index) ==
    IF index \in 0..(NUMBER_CHANNELS - 1)
    THEN [kind |-> "channel", index |-> index]
    ELSE [kind |-> "panic", index |-> index]

\* the loop of next_channel that builds the remapping table
RECURSIVE build_table(_, _, _, _)
build_table(channels, i, table, idx) ==
    IF i = NUMBER_CHANNELS THEN table
    ELSE IF channels[i] = 1
         THEN build_table(channels, i + 1, [table EXCEPT ![idx] = i], idx + 1)
         ELSE build_table(channels, i + 1, table, idx)

\* a table filled from place 1 on
remapping_table_from_one(channels) ==
    build_table(channels, 0, [k \in 0..NUMBER_CHANNELS |-> 0], 1)

remapping_table(channels) ==
    build_table(channels, 0, [k \in 0..(NUMBER_CHANNELS - 1) |-> 0], 0)

\* remapping_table over the expanded maps of ChmSet, computed once
tables == [map \in ChmSet |-> remapping_table(expanded[map][1])]

table_of(channels) ==
    tables[CHOOSE map \in ChmSet : expanded[map][1] = channels]

\* the sum reduced modulo the number of all channels
unmapped_channel_mod_all(self) ==
    U8(self.last_unmapped_channel + self.hop_increment) % NUMBER_CHANNELS

unmapped_channel_of(self) ==
    U8(self.last_unmapped_channel + self.hop_increment) % NUMBER_DATA_CHANNELS

\* next_channel remapping also when the unmapped channel is used
next_channel_always_remaps(self) ==
    LET unmapped_channel == unmapped_channel_of(self)
        after == [self EXCEPT !.last_unmapped_channel = unmapped_channel]
    IN  IF self.number_used_channels = 0
        THEN <<after, [kind |-> "panic", index |-> unmapped_channel]>>
        ELSE <<after, from_channel_index(
                   table_of(self.channels)[unmapped_channel
                                             % self.number_used_channels])>>

\* next_channel storing the channel it returns as last_unmapped_channel
next_channel_stores_mapped(self) ==
    LET unmapped_channel == unmapped_channel_of(self)
        used == self.channels[unmapped_channel] = 1
        mapped == IF used \/ self.number_used_channels = 0
                  THEN unmapped_channel
                  ELSE table_of(self.channels)[unmapped_channel
                                                 % self.number_used_channels]
    IN  <<[self EXCEPT !.last_unmapped_channel = mapped],
          from_channel_index(mapped)>>

\* next_channel: <<the ConnectionData after the call, what the call returns>>
next_channel(self) ==
    LET unmapped_channel == unmapped_channel_of(self)
        used  == self.channels[unmapped_channel] = 1
        after == [self EXCEPT !.last_unmapped_channel = unmapped_channel]
    IN  IF used THEN <<after, from_channel_index(unmapped_channel)>>
        ELSE IF self.number_used_channels = 0
             THEN <<after, [kind |-> "panic", index |-> unmapped_channel]>>
             ELSE LET remapping_index ==
                          unmapped_channel % self.number_used_channels
                      table == table_of(self.channels)
                  IN  <<after, from_channel_index(table[remapping_index])>>

NoReturn == [kind |-> "none", index |-> 0]

\* how many results are remembered: one period and one more call
HistLen == NUMBER_DATA_CHANNELS + 1

Remember(h, e) ==
    IF Len(h) < HistLen THEN Append(h, e) ELSE Append(Tail(h), e)

HopInit ==
    /\ \E lldata \in LLDataSet :
          /\ conn = new(lldata)
          /\ chm = lldata.chm
    /\ ret = NoReturn
    /\ hist = << >>
    /\ fresh = TRUE

UpdateLLData ==
    /\ ret.kind # "panic"
    /\ \E lldata \in LLDataUpdateSet :
          /\ conn' = update_lldata(conn, lldata)
          /\ chm' = lldata.chm
    /\ ret' = NoReturn
    /\ hist' = << >>
    /\ fresh' = FALSE
    /\ UNCHANGED radioVars

NextChannel ==
    /\ ret.kind # "panic"
    /\ LET r == next_channel(conn)
       IN  /\ conn' = r[1]
           /\ ret' = r[2]
           /\ hist' = Remember(hist, [before  |-> conn.last_unmapped_channel,
                                      after   |-> r[1].last_unmapped_channel,
                                      channel |-> r[2]])
           /\ fresh' = (fresh /\ Len(hist) < HistLen)
    /\ UNCHANGED <<chm, radioVars>>

HopNext == UpdateLLData \/ NextChannel


(***************************************************************************)
(* radio.rs : the Radio driver, the RADIO peripheral, PPI and TIMER0       *)
(***************************************************************************)

NRF52_RADIO_MODECNF0_RU_FAST == 1

NRF52_FAST_RAMPUP_TIME_TX == 40

NRF52_TX_DELAY == 3

NRF52_TX_END_DELAY == 3

NRF52_RX_END_DELAY == 7

BLE_T_IFS == 150

\* a u32 is kept as its two 16-bit halves <<high, low>>
U32(high, low) == <<high % 65536, low % 65536>>

\* x + k and x - k for a u32 x and 0 <= k < 2^16: <<the wrapped result,
\* whether the exact result leaves 0..2^32-1>>
u32_add(x, k) ==
    LET low  == x[2] + k
        high == x[1] + (low \div 65536)
    IN  <<U32(high, low), high >= 65536>>

u32_sub(x, k) ==
    LET low  == x[2] - k
        high == IF low < 0 THEN x[1] - 1 ELSE x[1]
    IN  <<U32(high + 65536, low + 65536), high < 0>>

\* x >> 24 and x << 8
u32_shr24(x) == x[1] \div 256

u32_shl8(x) == U32((x[1] % 256) * 256 + (x[2] \div 256), (x[2] % 256) * 256)

\* enum RadioState
RadioState == {"TX", "RX", "Initialized", "Uninitialized"}

\* nrf5x::ble_advertising_hil
PhyTransition == {"None", "MoveToRX", "MoveToTX"}

ReadAction == {"ReadFrameAndStayRX", "ReadFrameAndMoveToTX", "SkipFrame"}

TxImmediate == {"TX", "RespondAfterTifs", "GoToSleep"}

\* nrf5x::constants::RADIO_STATE_*: what the STATE register reads
RADIO_STATE_DISABLE == "DISABLED"

RADIO_STATE_RXDISABLE == "RXDISABLE"

RADIO_STATE_TXDISABLE == "TXDISABLE"

HwRxStates == {"RXRU", "RXIDLE", "RX"}

HwTxStates == {"TXRU", "TXIDLE", "TX"}

\* nrf5x::constants::TxPower as u8: the levels TxPower::try_from accepts
TxPowerLevels == {4, 3, 0, 252, 248, 244, 240, 236, 216}

ZerodBm == 0

\* the registers after a reset of the peripheral
ResetRegs ==
    [power |-> 1, state |-> RADIO_STATE_DISABLE,
     event_ready |-> 0, event_address |-> 0, event_end |-> 0,
     event_disabled |-> 0, event_devmatch |-> 0, event_rssiend |-> 0,
     bcmatch |-> 0, crcok |-> 0,
     shorts |-> {}, inten |-> {}, packetptr |-> "null",
     frequency |-> 0, datawhiteiv |-> 0, mode |-> 0,
     pcnf0 |-> [lflen |-> 0, s0len |-> 0, s1len |-> 0, s1incl |-> 0,
                plen |-> 0],
     pcnf1 |-> [whiteen |-> 0, endian |-> 0, balen |-> 0, statlen |-> 0,
                maxlen |-> 0],
     modecnf0 |-> 0, txaddress |-> 0, rxaddresses |-> 0,
     prefix0 |-> 0, base0 |-> <<0, 0>>,
     crccnf |-> [skipaddr |-> 0, len |-> 0], crcinit |-> 0, crcpoly |-> 0,
     tifs |-> 0, bcc |-> 0, txpower |-> 0]

\* Radio::new
NewRadio ==
    [tx_power |-> ZerodBm, rx_client |-> FALSE, tx_client |-> FALSE,
     advertisement_client |-> FALSE, state |-> "Uninitialized",
     channel |-> [kind |-> "none", index |-> 0], transition |-> "None",
     debug_bit |-> FALSE]

ResetTimer ==
    [cc0 |-> <<0, 0>>, cc2 |-> <<0, 0>>, events_compare0 |-> 0, prescaler |-> 0,
     bitmode |-> 0, running |-> FALSE]

\* the two static payload buffers, cut to their first bytes
PAYLOAD_LEN == 3

ZeroPayload == [i \in 0..(PAYLOAD_LEN - 1) |-> 0]

\* no rx_client call was made yet for the frame on air
NoFrame ==
    [starts |-> 0, ends |-> 0, kept |-> FALSE, orphan |-> FALSE,
     start_len |-> 0, end_len |-> 0, aborted |-> FALSE, revived |-> ""]

\* the calls of the rx_client for the frame on air, counted up to 2; whether
\* handle_address_event gave the frame up, and the first client call made
\* for it after that
Noted(f, ev, len, res) ==
    IF ev = "abort" THEN [f EXCEPT !.aborted = TRUE]
    ELSE IF f.aborted
    THEN IF f.revived = "" /\ ev \in {"receive_start", "receive_end",
                                      "advertisement_done"}
         THEN [f EXCEPT !.revived = ev] ELSE f
    ELSE IF ev = "receive_start"
    THEN [f EXCEPT !.starts = IF @ < 2 THEN @ + 1 ELSE @,
                   !.kept = res \in {"ReadFrameAndStayRX",
                                     "ReadFrameAndMoveToTX"},
                   !.start_len = len]
    ELSE IF ev = "receive_end"
    THEN [f EXCEPT !.ends = IF @ < 2 THEN @ + 1 ELSE @,
                   !.orphan = @ \/ f.starts = 0,
                   !.end_len = len]
    ELSE f

\* the whole machine an operation of the driver works on
Machine ==
    [radio |-> radio, regs |-> regs, ppi |-> ppi, timer0 |-> timer0,
     air |-> air, TX_PAYLOAD |-> TX_PAYLOAD, RX_PAYLOAD |-> RX_PAYLOAD,
     log |-> << >>, outcome |-> "ok", frame |-> frame]

\* one entry of the log: what happened, and the driver state, registers and
\* PPI channels at that moment
LogCrc(m, ev, len, crc, res) ==
    [m EXCEPT !.log = Append(@, [ev |-> ev, len |-> len, crc |-> crc,
                                 res |-> res, state |-> m.radio.state,
                                 regs |-> m.regs, ppi |-> m.ppi]),
              !.frame = Noted(@, ev, len, res)]

Log(m, ev, len, res) == LogCrc(m, ev, len, "", res)

Panic(m, why) == [Log(m, "panic", 0, why) EXCEPT !.outcome = "panic"]

(* ---- the RADIO peripheral's tasks ---- *)

task_txen(m) ==
    LET l == Log(m, "task_txen", 0, "")
    IN  IF m.regs.state = RADIO_STATE_DISABLE
        THEN [l EXCEPT !.regs.state = "TXRU", !.air = "idle"]
        ELSE l

task_rxen(m) ==
    LET l == Log(m, "task_rxen", 0, "")
    IN  IF m.regs.state = RADIO_STATE_DISABLE
        THEN [l EXCEPT !.regs.state = "RXRU", !.air = "idle"]
        ELSE l

task_disable(m) ==
    LET l == Log(m, "task_disable", 0, "")
    IN  IF m.regs.state \in HwRxStates
        THEN [l EXCEPT !.regs.state = RADIO_STATE_RXDISABLE, !.air = "idle"]
        ELSE IF m.regs.state \in HwTxStates
        THEN [l EXCEPT !.regs.state = RADIO_STATE_TXDISABLE, !.air = "idle"]
        ELSE l

(* ---- what the peripheral does on its own: each the set of next machines ---- *)

\* ramp-up done: READY, and START through the READY->START shortcut
HwReady(m) ==
    IF m.regs.state \notin {"RXRU", "TXRU"} THEN {}
    ELSE LET rx == m.regs.state = "RXRU"
             go == "READY_START" \in m.regs.shorts
         IN  {[m EXCEPT !.regs.event_ready = 1,
                        !.regs.state = IF rx THEN (IF go THEN "RX" ELSE "RXIDLE")
                                             ELSE (IF go THEN "TX" ELSE "TXIDLE"),
                        !.air = "idle"]}

\* the access address received (RX) or sent (TX)
HwAddress(m) ==
    IF m.regs.state \in {"RX", "TX"} /\ m.air = "idle"
    THEN {[m EXCEPT !.regs.event_address = 1,
                    !.frame = NoFrame,
                    !.air = IF "ADDRESS_BCSTART" \in m.regs.shorts
                            THEN "counting" ELSE "payload"]}
    ELSE {}

\* the lengths a received frame may carry in its LENGTH byte
LengthBytes == {10, 254}

\* S0 of a received frame
HeaderByte == 64

\* the buffer PACKETPTR points to, filled by reception up to the LENGTH byte
Received(m, len) ==
    LET bytes == [i \in 0..(PAYLOAD_LEN - 1) |->
                     IF i = 0 THEN HeaderByte ELSE IF i = 1 THEN len ELSE 0]
    IN  IF m.regs.state # "RX" THEN m
        ELSE IF m.regs.packetptr = "RX_PAYLOAD"
        THEN [m EXCEPT !.RX_PAYLOAD = bytes]
        ELSE IF m.regs.packetptr = "TX_PAYLOAD"
        THEN [m EXCEPT !.TX_PAYLOAD = bytes]
        ELSE m

\* the bit counter reaches BCC: the LENGTH byte is in the buffer
HwBcmatch(m) ==
    IF m.regs.state \in {"RX", "TX"} /\ m.air = "counting"
    THEN {[Received(m, len) EXCEPT !.regs.bcmatch = 1, !.air = "payload"] :
             len \in LengthBytes}
    ELSE {}

\* the END timestamps TIMER0 may capture
CaptureTimes == {<<0, 1000>>, <<65535, 65416>>}

\* the packet ends: END, CRCOK on reception, CC[2] captured through PPI
\* channel 27, DISABLE through the END->DISABLE shortcut
HwEnd(m) ==
    IF m.regs.state \in {"RX", "TX"} /\ m.air = "payload"
    THEN LET rx == m.regs.state = "RX"
             next == IF "END_DISABLE" \in m.regs.shorts
                     THEN (IF rx THEN RADIO_STATE_RXDISABLE
                                 ELSE RADIO_STATE_TXDISABLE)
                     ELSE (IF rx THEN "RXIDLE" ELSE "TXIDLE")
         IN  {[m EXCEPT !.regs.event_end = 1,
                        !.regs.crcok = IF rx THEN ok ELSE @,
                        !.regs.state = next,
                        !.air = "idle",
                        !.timer0.cc2 = IF 27 \in m.ppi /\ m.timer0.running
                                       THEN t ELSE @] :
                 ok \in {0, 1}, t \in CaptureTimes}
    ELSE {}

\* the peripheral has shut down: DISABLED
HwDisabled(m) ==
    IF m.regs.state \in {RADIO_STATE_RXDISABLE, RADIO_STATE_TXDISABLE}
    THEN {[m EXCEPT !.regs.state = RADIO_STATE_DISABLE,
                    !.regs.event_disabled = 1, !.air = "idle"]}
    ELSE {}

\* TIMER0 reaches CC[0]: COMPARE[0], and through PPI channel 20 TXEN,
\* through channel 21 RXEN
HwCompare(m) ==
    IF m.timer0.running /\ (20 \in m.ppi \/ 21 \in m.ppi)
    THEN LET c == [m EXCEPT !.timer0.events_compare0 = 1]
             started == (IF 20 \in m.ppi THEN {"TXRU"} ELSE {})
                            \cup (IF 21 \in m.ppi THEN {"RXRU"} ELSE {})
         IN  IF m.regs.state # RADIO_STATE_DISABLE THEN {c}
             ELSE {[c EXCEPT !.regs.state = st, !.air = "idle"] :
                      st \in started}
    ELSE {}

\* every step the radio can take by itself
RadioHwSteps(m) ==
    HwReady(m) \cup HwAddress(m) \cup HwBcmatch(m) \cup HwEnd(m)
        \cup HwDisabled(m)

(* ---- Radio: the private helpers ---- *)

enable_interrupt(m, intr) == [m EXCEPT !.regs.inten = @ \cup intr]

clear_interrupt(m, intr) == [m EXCEPT !.regs.inten = @ \ intr]

disable_all_interrupts(m) == [m EXCEPT !.regs.inten = {}]

enable_ppi(m, pins) == [m EXCEPT !.ppi = @ \cup pins]

disable_ppi(m, pins) == [m EXCEPT !.ppi = @ \ pins]

set_dma_ptr_tx(m) == [m EXCEPT !.regs.packetptr = "TX_PAYLOAD"]

set_dma_ptr_rx(m) == [m EXCEPT !.regs.packetptr = "RX_PAYLOAD"]

\* self.state.set(..), noted in the log with the registers of that moment
\* self.state.set(st): logged with the state it replaces
set_state(m, st) == [Log(m, "state.set", 0, st) EXCEPT !.radio.state = st]

setup_tx(m) ==
    LET m1 == set_state(set_dma_ptr_tx(m), "TX")
        m2 == [m1 EXCEPT !.regs.event_ready = 0, !.regs.event_end = 0,
                         !.regs.event_disabled = 0,
                         !.regs.shorts = {"END_DISABLE", "READY_START"}]
    IN  enable_interrupt(m2, {"DISABLED"})

\* the loop of wait_until_disabled ends when the peripheral leaves the state
\* it was seen in: RXDISABLE and TXDISABLE are left for DISABLED only
wait_until_disabled(m) ==
    IF m.regs.state # RADIO_STATE_DISABLE
       /\ m.regs.state \in {RADIO_STATE_RXDISABLE, RADIO_STATE_TXDISABLE}
    THEN CHOOSE h \in HwDisabled(m) : TRUE
    ELSE m

\* tx() triggering task_txen before setup_tx has programmed the transmission
tx_enables_first(m) == setup_tx(task_txen(wait_until_disabled(m)))

tx(m) == task_txen(setup_tx(wait_until_disabled(m)))

setup_rx(m) ==
    LET m1 == disable_ppi(set_dma_ptr_rx(m), {20})
        m2 == set_state(m1, "RX")
        m3 == [m2 EXCEPT !.regs.bcc = 8,
                         !.regs.event_address = 0, !.regs.event_devmatch = 0,
                         !.regs.bcmatch = 0, !.regs.event_rssiend = 0,
                         !.regs.crcok = 0,
                         !.regs.shorts = {"END_DISABLE", "READY_START",
                                          "ADDRESS_BCSTART"}]
    IN  enable_interrupt(m3, {"ADDRESS"})

\* rx() without its disable_all_interrupts
rx_keeps_interrupts(m) ==
    LET m1 == wait_until_disabled(m)
        m2 == [m1 EXCEPT !.regs.event_end = 0, !.regs.event_disabled = 0]
    IN  task_rxen(setup_rx(m2))

rx(m) ==
    LET m1 == disable_all_interrupts(wait_until_disabled(m))
        m2 == [m1 EXCEPT !.regs.event_end = 0, !.regs.event_disabled = 0]
    IN  task_rxen(setup_rx(m2))

set_rx_address(m) == [m EXCEPT !.regs.rxaddresses = 1]

set_tx_address(m) == [m EXCEPT !.regs.txaddress = 0]

\* regs.power.set(0) resets the peripheral, regs.power.set(1) powers it
radio_on(m) == [m EXCEPT !.regs = ResetRegs, !.air = "idle"]

set_tx_power(m) == [m EXCEPT !.regs.txpower = m.radio.tx_power]

set_tifs(m) == [m EXCEPT !.regs.tifs = 150]

get_packet_end_time_value(m) == m.timer0.cc2

\* a u32 sum or difference that leaves 0..2^32-1 panics where the build
\* checks overflow and wraps where it does not: both results, as
\* <<value, panicked>>
U32Results(r) ==
    IF r[2] THEN {<<r[1], FALSE>>, <<r[1], TRUE>>} ELSE {<<r[1], FALSE>>}

\* end_time + a - b - c - d, evaluated from the left as the code does
TurnaroundTimes(end_time, a, b, c, d) ==
    LET s1 == U32Results(u32_add(end_time, a))
        s2 == UNION {{<<r[1], r[2] \/ p[2]>> :
                         r \in U32Results(u32_sub(p[1], b))} :
                       p \in s1}
        s3 == UNION {{<<r[1], r[2] \/ p[2]>> :
                         r \in U32Results(u32_sub(p[1], c))} :
                       p \in s2}
    IN  UNION {{<<r[1], r[2] \/ p[2]>> : r \in U32Results(u32_sub(p[1], d))} :
                 p \in s3}

schedule_tx_after_t_ifs(m) ==
    {IF t[2] THEN Panic(m, "attempt to add with overflow")
     ELSE enable_ppi([m EXCEPT !.timer0.cc0 = t[1],
                               !.timer0.events_compare0 = 0], {20}) :
        t \in TurnaroundTimes(get_packet_end_time_value(m), BLE_T_IFS,
                              NRF52_RX_END_DELAY, NRF52_FAST_RAMPUP_TIME_TX,
                              NRF52_TX_DELAY)}

EARLIER_LISTEN == 2

schedule_rx_after_t_ifs(m) ==
    {IF t[2] THEN Panic(m, "attempt to add with overflow")
     ELSE enable_ppi([m EXCEPT !.timer0.cc0 = t[1],
                               !.timer0.events_compare0 = 0], {21}) :
        t \in TurnaroundTimes(get_packet_end_time_value(m), BLE_T_IFS,
                              NRF52_TX_END_DELAY, NRF52_FAST_RAMPUP_TIME_TX,
                              EARLIER_LISTEN)}

\* disable_radio leaving the PPI channels as they are
disable_radio_keeps_ppi(m) ==
    LET m1 == disable_all_interrupts(m)
        m2 == task_disable([m1 EXCEPT !.regs.shorts = {}])
    IN  set_state(m2, "Initialized")

\* disable_radio disabling the capture channels 26 and 27 as well
disable_radio_drops_captures(m) ==
    LET m1 == disable_all_interrupts(m)
        m2 == task_disable([m1 EXCEPT !.regs.shorts = {}])
        m3 == disable_ppi(m2, {20, 21, 23, 25, 26, 27, 31})
    IN  set_state(m3, "Initialized")

disable_radio(m) ==
    LET m1 == disable_all_interrupts(m)
        m2 == task_disable([m1 EXCEPT !.regs.shorts = {}])
        m3 == disable_ppi(m2, {20, 21, 23, 25, 31})
    IN  set_state(m3, "Initialized")

(* ---- Radio: the interrupt handlers; each gives the set of machines it ---- *)
(* ---- may end in, one per answer of the clients and of the peripheral ---- *)

\* the u8 sum RX_PAYLOAD[1] + 2: past 255 it panics where the build checks
\* overflow and wraps where it does not, as <<value, panicked>>
total_len(m) ==
    LET sum == m.RX_PAYLOAD[1] + 2
    IN  IF sum <= 255 THEN {<<sum, FALSE>>}
        ELSE {<<U8(sum), FALSE>>, <<U8(sum), TRUE>>}

\* advertisement_client.get().map_or(GoToSleep, |c| c.advertisement_done()):
\* <<the machine with the call logged, the answer>>
advertisement_done(m) ==
    IF m.radio.advertisement_client
    THEN {<<Log(m, "advertisement_done", 0, a), a>> : a \in TxImmediate}
    ELSE {<<m, "GoToSleep">>}

\* the loop of handle_address_event: left with BCMATCH raised, or with the
\* peripheral DISABLED; until then the peripheral moves on
RECURSIVE address_spin(_)
address_spin(m) ==
    IF m.regs.bcmatch # 0 THEN {[m |-> m, exit |-> "bcmatch"]}
    ELSE IF m.regs.state = RADIO_STATE_DISABLE
    THEN {[m |-> m, exit |-> "disabled"]}
    ELSE IF RadioHwSteps(m) = {} THEN {[m |-> m, exit |-> "never"]}
    ELSE UNION {address_spin(h) : h \in RadioHwSteps(m)}

\* handle_address_event after receive_start has answered
after_receive_start(m, result) ==
    CASE result = "ReadFrameAndStayRX" ->
            {enable_interrupt(m, {"END"})}
      [] result = "ReadFrameAndMoveToTX" ->
            {enable_interrupt([m EXCEPT !.radio.transition = "MoveToTX"],
                              {"END"})}
      [] result = "SkipFrame" ->
            {IF d[2] = "TX" THEN tx(d[1]) ELSE d[1] :
                d \in advertisement_done(
                          wait_until_disabled(disable_radio(m)))}

\* handle_address_event calling the rx_client for a frame whose reception
\* the peripheral already gave up
handle_address_event_no_abort(m) ==
    LET m1 == clear_interrupt([m EXCEPT !.regs.event_address = 0],
                              {"DISABLED", "ADDRESS"})
        left(s) ==
            CASE s.exit = "never" ->
                    {<<[s.m EXCEPT !.outcome = "hang"], FALSE>>}
              [] s.exit \in {"disabled", "bcmatch"} ->
                    IF ~s.m.radio.rx_client
                    THEN {<<Panic(s.m, "No rx_client?"), TRUE>>}
                    ELSE UNION {
                        IF len[2]
                        THEN {<<Panic(s.m, "attempt to add with overflow"),
                                TRUE>>}
                        ELSE UNION {
                            {<<a, TRUE>> :
                                a \in after_receive_start(
                                    Log(s.m, "receive_start", len[1], result),
                                    result)} :
                            result \in ReadAction} :
                        len \in total_len(s.m)}
    IN  UNION {left(s) : s \in address_spin(m1)}

\* handle_address_event up to its loop
address_enter(m) ==
    clear_interrupt([m EXCEPT !.regs.event_address = 0],
                    {"DISABLED", "ADDRESS"})

\* handle_address_event from the exit of its loop:
\* <<the machine, the bool it returns>>
address_left(s) ==
    CASE s.exit = "never" ->
            {<<[s.m EXCEPT !.outcome = "hang"], FALSE>>}
      [] s.exit = "disabled" ->
            {<<Log([disable_all_interrupts(s.m)
                        EXCEPT !.regs.shorts = {}], "abort", 0, ""),
               FALSE>>}
      [] s.exit = "bcmatch" ->
            IF ~s.m.radio.rx_client
            THEN {<<Panic(s.m, "No rx_client?"), TRUE>>}
            ELSE UNION {
                IF len[2]
                THEN {<<Panic(s.m, "attempt to add with overflow"),
                        TRUE>>}
                ELSE UNION {
                    {<<a, TRUE>> :
                        a \in after_receive_start(
                            Log(s.m, "receive_start", len[1], result),
                            result)} :
                    result \in ReadAction} :
                len \in total_len(s.m)}

\* handle_address_event: <<the machine, the bool it returns>>
handle_address_event(m) ==
    UNION {address_left(s) : s \in address_spin(address_enter(m))}

\* handle_rx_end_event after receive_end has answered
after_receive_end(m, result) ==
    CASE result = "MoveToTX" -> schedule_tx_after_t_ifs(setup_tx(m))
      [] result = "MoveToRX" ->
            {rx(setup_rx(wait_until_disabled(disable_radio(
                [m EXCEPT !.radio.debug_bit = TRUE]))))}
      [] result = "None" ->
            UNION {
                CASE d[2] = "TX" -> {tx(d[1])}
                  [] d[2] = "RespondAfterTifs" -> schedule_tx_after_t_ifs(d[1])
                  [] d[2] = "GoToSleep" -> {d[1]} :
                d \in advertisement_done(
                          wait_until_disabled(disable_radio(m)))}

\* handle_rx_end_event leaving PPI channel 21 enabled
handle_rx_end_event_keeps_ch21(m) ==
    LET m2 == clear_interrupt([m EXCEPT !.regs.event_end = 0], {"END"})
        crc_ok == IF m2.regs.crcok = 1 THEN "SUCCESS" ELSE "FAIL"
    IN  IF ~m2.radio.rx_client THEN {Panic(m2, "No rx_client?")}
        ELSE UNION {
            IF len[2] THEN {Panic(m2, "attempt to add with overflow")}
            ELSE UNION {
                after_receive_end(
                    LogCrc(m2, "receive_end", len[1], crc_ok, result),
                    result) :
                result \in PhyTransition} :
            len \in total_len(m2)}

handle_rx_end_event(m) ==
    LET m1 == clear_interrupt([m EXCEPT !.regs.event_end = 0], {"END"})
        m2 == disable_ppi(m1, {21})
        crc_ok == IF m2.regs.crcok = 1 THEN "SUCCESS" ELSE "FAIL"
    IN  IF ~m2.radio.rx_client THEN {Panic(m2, "No rx_client?")}
        ELSE UNION {
            IF len[2] THEN {Panic(m2, "attempt to add with overflow")}
            ELSE UNION {
                after_receive_end(
                    LogCrc(m2, "receive_end", len[1], crc_ok, result),
                    result) :
                result \in PhyTransition} :
            len \in total_len(m2)}

handle_tx_end_event(m) ==
    LET m1 == clear_interrupt([m EXCEPT !.regs.event_disabled = 0],
                              {"DISABLED"})
        m2 == [m1 EXCEPT !.regs.event_end = 0]
    IN  IF m2.radio.transition = "MoveToRX"
        THEN schedule_rx_after_t_ifs(setup_rx(m2))
        ELSE IF m2.radio.transition = "MoveToTX"
        THEN {IF d[2] = "TX" THEN tx(d[1]) ELSE d[1] :
                 d \in advertisement_done(wait_until_disabled(m2))}
        ELSE {m2}

\* the ADDRESS branch of handle_interrupt leaving DISABLED in
\* enabled_interrupts whatever handle_address_event returns
address_branch_keeps_disabled(m, enabled_interrupts) ==
    IF "ADDRESS" \in enabled_interrupts /\ m.regs.event_address = 1
    THEN {[m |-> r[1], enabled_interrupts |-> enabled_interrupts] :
             r \in handle_address_event(Log(m, "handle_address_event", 0, ""))}
    ELSE {[m |-> m, enabled_interrupts |-> enabled_interrupts]}

\* the ADDRESS branch of handle_interrupt: [m, enabled_interrupts]
address_branch(m, enabled_interrupts) ==
    IF "ADDRESS" \in enabled_interrupts /\ m.regs.event_address = 1
    THEN {[m |-> r[1],
           enabled_interrupts |->
               IF r[2] THEN enabled_interrupts \ {"DISABLED"}
                       ELSE enabled_interrupts] :
             r \in handle_address_event(Log(m, "handle_address_event", 0, ""))}
    ELSE {[m |-> m, enabled_interrupts |-> enabled_interrupts]}

\* the DISABLED branch of handle_interrupt running the TX end path in RX too
disabled_branch_always_tx_end(m, enabled_interrupts) ==
    IF m.outcome # "ok" THEN {m}
    ELSE IF "DISABLED" \in enabled_interrupts /\ m.regs.event_disabled = 1
    THEN LET l == Log(m, "disabled_branch", 0, "")
         IN  IF l.radio.state = "Uninitialized"
             THEN {Panic(l, "Oh no!")}
             ELSE handle_tx_end_event(Log(l, "handle_tx_end_event", 0, ""))
    ELSE {m}

\* the DISABLED branch of handle_interrupt
disabled_branch(m, enabled_interrupts) ==
    IF m.outcome # "ok" THEN {m}
    ELSE IF "DISABLED" \in enabled_interrupts /\ m.regs.event_disabled = 1
    THEN LET l == Log(m, "disabled_branch", 0, "")
         IN  IF l.radio.state = "RX"
             THEN {IF l.radio.advertisement_client
                   THEN Log([l EXCEPT !.regs.event_disabled = 0],
                            "timer_expired", 0, "")
                   ELSE [l EXCEPT !.regs.event_disabled = 0]}
             ELSE IF l.radio.state = "Uninitialized"
             THEN {Panic(l, "Oh no!")}
             ELSE handle_tx_end_event(Log(l, "handle_tx_end_event", 0, ""))
    ELSE {m}

\* the END branch of handle_interrupt
end_branch(m, enabled_interrupts) ==
    IF m.outcome # "ok" THEN {m}
    ELSE IF "END" \in enabled_interrupts /\ m.regs.event_end = 1
    THEN handle_rx_end_event(Log(m, "handle_rx_end_event", 0, ""))
    ELSE {m}

\* the READY branch of handle_interrupt
ready_branch(m, enabled_interrupts) ==
    IF "READY" \in enabled_interrupts /\ m.regs.event_ready = 1
    THEN clear_interrupt(m, {"READY"})
    ELSE m

\* handle_interrupt after its ADDRESS branch
after_address_branch(a) ==
    UNION {end_branch(d, a.enabled_interrupts) :
              d \in disabled_branch(a.m, a.enabled_interrupts)}

handle_interrupt(m) ==
    LET enabled_interrupts == m.regs.inten
    IN  UNION {after_address_branch(a) :
                  a \in address_branch(ready_branch(m, enabled_interrupts),
                                       enabled_interrupts)}

(* ---- Radio: the public operations ---- *)

\* nrf5x::constants of the BLE configuration
RADIO_CRCINIT_BLE == 5592405

RADIO_CRCPOLY_BLE == 1627

RADIO_MODE_BLE_1MBIT == 3

ble_set_crcinit(m, crcinit) == [m EXCEPT !.regs.crcinit = crcinit]

ble_set_crc_config(m) ==
    LET m1 == [m EXCEPT !.regs.crccnf = [skipaddr |-> 1, len |-> 3]]
    IN  [ble_set_crcinit(m1, RADIO_CRCINIT_BLE)
            EXCEPT !.regs.crcpoly = RADIO_CRCPOLY_BLE]

\* ble_set_access_address writing aa to BASE0 as it is, not shifted
ble_set_access_address_unshifted(m, aa) ==
    [m EXCEPT !.regs.prefix0 =
                  (m.regs.prefix0 - (m.regs.prefix0 % 256)) + u32_shr24(aa),
              !.regs.base0 = aa]

ble_set_access_address(m, aa) ==
    [m EXCEPT !.regs.prefix0 =
                  (m.regs.prefix0 - (m.regs.prefix0 % 256)) + u32_shr24(aa),
              !.regs.base0 = u32_shl8(aa)]

ble_set_packet_config(m) ==
    [m EXCEPT !.regs.pcnf0 = [lflen |-> 8, s0len |-> 1, s1len |-> 0,
                              s1incl |-> 0, plen |-> 0],
              !.regs.pcnf1 = [whiteen |-> 1, endian |-> 0, balen |-> 3,
                              statlen |-> 0, maxlen |-> 255],
              !.regs.modecnf0 = NRF52_RADIO_MODECNF0_RU_FAST]

ble_set_channel_rate(m) == [m EXCEPT !.regs.mode = RADIO_MODE_BLE_1MBIT]

\* RadioChannel::get_channel_index
get_channel_index(channel) == channel.index

\* `channel as u32`: the value the FREQUENCY register takes for the channel
channel_as_u32(channel) == channel.index

ble_set_data_whitening(m, channel) ==
    [m EXCEPT !.regs.datawhiteiv = get_channel_index(channel)]

\* ble_set_channel without its assert_eq!
ble_set_channel_unchecked(m, channel) ==
    ble_set_data_whitening(
        [m EXCEPT !.radio.channel = channel,
                  !.regs.frequency = channel_as_u32(channel)], channel)

ble_set_channel(m, channel) ==
    IF m.regs.state # RADIO_STATE_DISABLE
    THEN Panic(m, "assertion failed: RADIO_STATE_DISABLE == regs.state")
    ELSE ble_set_data_whitening(
             [m EXCEPT !.radio.channel = channel,
                       !.regs.frequency = channel_as_u32(channel)], channel)

ble_set_tx_power(m) == set_tx_power(m)

\* ble_initialize without self.state.set(RadioState::Initialized)
ble_initialize_stays_uninitialized(m) ==
    LET i == IF m.radio.state = "Uninitialized"
             THEN LET m1 == set_tifs(ble_set_tx_power(radio_on(m)))
                      m2 == set_rx_address(set_tx_address(
                                ble_set_channel_rate(m1)))
                      m3 == ble_set_crc_config(ble_set_packet_config(m2))
                  IN  enable_ppi(m3, {26, 27})
             ELSE m
    IN  [i EXCEPT !.timer0.prescaler = 4, !.timer0.bitmode = 3,
                  !.timer0.running = TRUE]

ble_initialize(m) ==
    LET i == IF m.radio.state = "Uninitialized"
             THEN LET m1 == set_tifs(ble_set_tx_power(radio_on(m)))
                      m2 == set_rx_address(set_tx_address(
                                ble_set_channel_rate(m1)))
                      m3 == ble_set_crc_config(ble_set_packet_config(m2))
                  IN  enable_ppi(set_state(m3, "Initialized"), {26, 27})
             ELSE m
    IN  [i EXCEPT !.timer0.prescaler = 4, !.timer0.bitmode = 3,
                  !.timer0.running = TRUE]

\* the copy loop of replace_radio_buffer: buf[0..len] panics past the end of
\* buf, TX_PAYLOAD[i] past the end of TX_PAYLOAD
\* replace_radio_buffer clearing the TX buffer past the copied bytes
replace_radio_buffer_clears_rest(m, buf, len) ==
    IF len > Len(buf) THEN Panic(m, "index out of range for slice")
    ELSE IF len > PAYLOAD_LEN
    THEN Panic([m EXCEPT !.TX_PAYLOAD = [i \in 0..(PAYLOAD_LEN - 1) |->
                                             buf[i + 1]]],
               "index out of bounds")
    ELSE [m EXCEPT !.TX_PAYLOAD = [i \in 0..(PAYLOAD_LEN - 1) |->
                                      IF i < len THEN buf[i + 1] ELSE 0]]

\* the buffer replace_radio_buffer hands back: buf, which it only read
replace_radio_buffer_returns(buf, len) == buf

replace_radio_buffer(m, buf, len) ==
    IF len > Len(buf) THEN Panic(m, "index out of range for slice")
    ELSE IF len > PAYLOAD_LEN
    THEN Panic([m EXCEPT !.TX_PAYLOAD = [i \in 0..(PAYLOAD_LEN - 1) |->
                                             buf[i + 1]]],
               "index out of bounds")
    ELSE [m EXCEPT !.TX_PAYLOAD = [i \in 0..(PAYLOAD_LEN - 1) |->
                                      IF i < len THEN buf[i + 1] ELSE @[i]]]

set_advertisement_data(m, buf, len) == replace_radio_buffer(m, buf, len)

transmit_advertisement(m, buf, len) ==
    LET m1 == set_advertisement_data(ble_initialize(m), buf, len)
    IN  IF m1.outcome # "ok" THEN m1 ELSE tx(m1)

enable_interrupts(m) == [m EXCEPT !.regs.inten = @ \cup {"ADDRESS"}]

receive_advertisement(m) == enable_interrupts(rx(ble_initialize(m)))

set_receive_client(m) == [m EXCEPT !.radio.rx_client = TRUE]

set_transmit_client(m) == [m EXCEPT !.radio.tx_client = TRUE]

set_advertisement_client(m) == [m EXCEPT !.radio.advertisement_client = TRUE]

\* TxPower::try_from(u8)
TxPower_try_from(tx_power) ==
    IF tx_power \in TxPowerLevels THEN [ok |-> TRUE, res |-> tx_power]
    ELSE [ok |-> FALSE, res |-> 0]

\* BleConfig::set_tx_power storing the level before it is validated
config_set_tx_power_stores_first(m, tx_power) ==
    LET t == TxPower_try_from(tx_power)
        s == [m EXCEPT !.radio.tx_power = tx_power]
    IN  IF ~t.ok THEN Log(s, "return", 0, "ENOSUPPORT")
        ELSE Log(s, "return", 0, "SUCCESS")

\* BleConfig::set_tx_power
config_set_tx_power(m, tx_power) ==
    LET t == TxPower_try_from(tx_power)
    IN  IF ~t.ok THEN Log(m, "return", 0, "ENOSUPPORT")
        ELSE Log([m EXCEPT !.radio.tx_power = t.res], "return", 0, "SUCCESS")

set_channel(m, channel, address, crcinit) ==
    LET m1 == ble_set_channel(m, channel)
    IN  IF m1.outcome # "ok" THEN m1
        ELSE ble_set_crcinit(ble_set_access_address(m1, address), crcinit)

set_transition_state(m, state) == [m EXCEPT !.radio.transition = state]

set_access_address(m, aa) == ble_set_access_address(m, aa)

(***************************************************************************)
(* The state machines                                                      *)
(***************************************************************************)

RadioInit ==
    /\ radio = NewRadio
    /\ regs = ResetRegs
    /\ ppi = {}
    /\ timer0 = ResetTimer
    /\ air = "idle"
    /\ TX_PAYLOAD = ZeroPayload
    /\ RX_PAYLOAD = ZeroPayload
    /\ log = << >>
    /\ outcome = "ok"
    /\ calls = 0
    /\ frame = NoFrame

\* the machine an operation leaves becomes the state
Commit(m) ==
    /\ radio' = m.radio
    /\ regs' = m.regs
    /\ ppi' = m.ppi
    /\ timer0' = m.timer0
    /\ air' = m.air
    /\ TX_PAYLOAD' = m.TX_PAYLOAD
    /\ RX_PAYLOAD' = m.RX_PAYLOAD
    /\ log' = m.log
    /\ outcome' = m.outcome
    /\ frame' = m.frame

\* a panic or a loop that never ends stops the kernel
Running == outcome = "ok"

\* the public operations one run calls at most
MaxCalls == 3

\* the machine as an operation finds it, the call logged
Enter(op) == Log(Machine, "call", 0, op)

\* the layer above calls a public operation of the driver
Called ==
    /\ Running
    /\ calls < MaxCalls
    /\ calls' = calls + 1
    /\ UNCHANGED hopVars

\* the interrupt fires, or the peripheral moves on
Stepped ==
    /\ Running
    /\ UNCHANGED <<hopVars, calls>>

\* the values the upper layer hands to the driver
TxPowerInputs == {4, 1}

ChannelInputs == {from_channel_index(37)}

\* 0x8E89BED6
AccessAddressInputs == {<<36489, 48854>>}

CrcInitInputs == {5592405}

AdvertisementInputs == {[buf |-> <<66, 1, 7>>, len |-> 2]}

BleInitialize ==
    /\ Called
    /\ Commit(ble_initialize(Enter("ble_initialize")))

SetTxPower ==
    /\ Called
    /\ \E v \in TxPowerInputs :
           Commit(config_set_tx_power(Enter("set_tx_power"), v))

SetChannel ==
    /\ Called
    /\ \E c \in ChannelInputs, aa \in AccessAddressInputs,
          ci \in CrcInitInputs :
           Commit(set_channel(Enter("set_channel"), c, aa, ci))

SetTransitionState ==
    /\ Called
    /\ \E t \in PhyTransition :
           Commit(set_transition_state(Enter("set_transition_state"), t))

SetAdvertisementData ==
    /\ Called
    /\ \E a \in AdvertisementInputs :
           Commit(set_advertisement_data(Enter("set_advertisement_data"),
                                         a.buf, a.len))

TransmitAdvertisement ==
    /\ Called
    /\ \E a \in AdvertisementInputs :
           Commit(transmit_advertisement(Enter("transmit_advertisement"),
                                         a.buf, a.len))

ReceiveAdvertisement ==
    /\ Called
    /\ Commit(receive_advertisement(Enter("receive_advertisement")))

SetReceiveClient ==
    /\ Called
    /\ Commit(set_receive_client(Enter("set_receive_client")))

SetTransmitClient ==
    /\ Called
    /\ Commit(set_transmit_client(Enter("set_transmit_client")))

SetAdvertisementClient ==
    /\ Called
    /\ Commit(set_advertisement_client(Enter("set_advertisement_client")))

SetAccessAddress ==
    /\ Called
    /\ \E aa \in AccessAddressInputs :
           Commit(set_access_address(Enter("set_access_address"), aa))

EnableInterrupts ==
    /\ Called
    /\ Commit(enable_interrupts(Enter("enable_interrupts")))

DisableAllInterrupts ==
    /\ Called
    /\ Commit(disable_all_interrupts(Enter("disable_all_interrupts")))

Tx ==
    /\ Called
    /\ Commit(tx(Enter("tx")))

Rx ==
    /\ Called
    /\ Commit(rx(Enter("rx")))

\* the radio interrupt is pending: an enabled interrupt's event is raised
Pending ==
    \/ "READY" \in regs.inten /\ regs.event_ready = 1
    \/ "ADDRESS" \in regs.inten /\ regs.event_address = 1
    \/ "DISABLED" \in regs.inten /\ regs.event_disabled = 1
    \/ "END" \in regs.inten /\ regs.event_end = 1

HandleInterrupt ==
    /\ Pending
    /\ Stepped
    /\ \E m \in handle_interrupt(Enter("handle_interrupt")) : Commit(m)

Ready ==
    /\ Stepped
    /\ \E m \in HwReady(Machine) : Commit(m)

Address ==
    /\ Stepped
    /\ \E m \in HwAddress(Machine) : Commit(m)

Bcmatch ==
    /\ Stepped
    /\ \E m \in HwBcmatch(Machine) : Commit(m)

End ==
    /\ Stepped
    /\ \E m \in HwEnd(Machine) : Commit(m)

Disabled ==
    /\ Stepped
    /\ \E m \in HwDisabled(Machine) : Commit(m)

Compare ==
    /\ Stepped
    /\ \E m \in HwCompare(Machine) : Commit(m)

RadioNext ==
    \/ BleInitialize
    \/ SetTxPower
    \/ SetChannel
    \/ SetTransitionState
    \/ SetAdvertisementData
    \/ TransmitAdvertisement
    \/ ReceiveAdvertisement
    \/ SetReceiveClient
    \/ SetTransmitClient
    \/ SetAdvertisementClient
    \/ SetAccessAddress
    \/ EnableInterrupts
    \/ DisableAllInterrupts
    \/ Tx
    \/ Rx
    \/ HandleInterrupt
    \/ Ready
    \/ Address
    \/ Bcmatch
    \/ End
    \/ Disabled
    \/ Compare

(* ---- Radio: handle_interrupt with the loop of handle_address_event ---- *)
(* ---- taken turn by turn, the peripheral moving on between the turns  ---- *)

\* the ADDRESS branch of handle_interrupt is about to be taken
AddressPending == "ADDRESS" \in regs.inten /\ regs.event_address = 1

\* handle_interrupt is inside the loop of handle_address_event
Spinning == outcome = "spin"

\* the machine handle_interrupt works on while it is in the loop
AtLoop == [Machine EXCEPT !.log = log]

\* the loop is left at its next turn: BCMATCH raised, or the peripheral
\* DISABLED
LoopExits == regs.bcmatch # 0 \/ regs.state = RADIO_STATE_DISABLE

\* the steps the peripheral takes by itself: ramp-up, the bit counter and
\* the end of a frame it is in, shutdown, and the address it sends
OwnSteps(m) ==
    HwReady(m) \cup HwBcmatch(m) \cup HwEnd(m) \cup HwDisabled(m)
        \cup (IF m.regs.state = "TX" THEN HwAddress(m) ELSE {})

\* the step that takes a sender on the air: an address is received
AirSteps(m) == IF m.regs.state = "RX" THEN HwAddress(m) ELSE {}

\* an interrupt with no ADDRESS branch to take: handle_interrupt has no loop
HandleOther ==
    /\ Pending
    /\ ~AddressPending
    /\ Stepped
    /\ \E m \in handle_interrupt(Enter("handle_interrupt")) : Commit(m)

\* handle_interrupt up to the loop of handle_address_event
SpinEnter ==
    /\ AddressPending
    /\ Stepped
    /\ LET m == Enter("handle_interrupt")
           m1 == ready_branch(m, m.regs.inten)
           m2 == address_enter(Log(m1, "handle_address_event", 0, ""))
       IN  Commit([m2 EXCEPT !.outcome = "spin"])

\* the loop goes round while the peripheral moves on by itself
SpinOwn ==
    /\ Spinning
    /\ ~LoopExits
    /\ UNCHANGED <<hopVars, calls>>
    /\ \E h \in OwnSteps(AtLoop) : Commit([h EXCEPT !.outcome = "spin"])

\* the loop goes round while a frame arrives
SpinAir ==
    /\ Spinning
    /\ ~LoopExits
    /\ UNCHANGED <<hopVars, calls>>
    /\ \E h \in AirSteps(AtLoop) : Commit([h EXCEPT !.outcome = "spin"])

\* the loop is left and handle_interrupt runs to its end; enabled_interrupts
\* is what handle_interrupt read at its entry
SpinExit ==
    /\ Spinning
    /\ LoopExits
    /\ UNCHANGED <<hopVars, calls>>
    /\ \E s \in address_spin(AtLoop) :
           \E r \in address_left(s) :
               LET enabled_interrupts == log[1].regs.inten
                   a == [m |-> r[1],
                         enabled_interrupts |->
                             IF r[2] THEN enabled_interrupts \ {"DISABLED"}
                                     ELSE enabled_interrupts]
               IN  \E m \in after_address_branch(a) : Commit(m)

SpinNext ==
    \/ BleInitialize
    \/ SetTxPower
    \/ SetChannel
    \/ SetTransitionState
    \/ SetAdvertisementData
    \/ TransmitAdvertisement
    \/ ReceiveAdvertisement
    \/ SetReceiveClient
    \/ SetTransmitClient
    \/ SetAdvertisementClient
    \/ SetAccessAddress
    \/ EnableInterrupts
    \/ DisableAllInterrupts
    \/ Tx
    \/ Rx
    \/ HandleOther
    \/ SpinEnter
    \/ SpinOwn
    \/ SpinAir
    \/ SpinExit
    \/ Ready
    \/ Address
    \/ Bcmatch
    \/ End
    \/ Disabled
    \/ Compare

\* the peripheral finishes what it has begun, and the loop is left once it
\* can be; nothing makes a sender transmit
SpinFairness == WF_vars(SpinOwn) /\ WF_vars(SpinExit)

\* the hopping engine while the radio is looked at: one fixed connection
HopIdle ==
    /\ conn = new([chm |-> <<255, 255, 255, 255, 31>>, hop_and_sca |-> 5])
    /\ chm = <<255, 255, 255, 255, 31>>
    /\ ret = NoReturn
    /\ hist = << >>
    /\ fresh = TRUE

Init == HopIdle /\ RadioInit

Spec == Init /\ [][RadioNext]_vars

\* one more tx() by the layer above once its MaxCalls calls are made
LateTx ==
    /\ Running
    /\ calls = MaxCalls
    /\ calls' = calls + 1
    /\ UNCHANGED hopVars
    /\ Commit(tx(Enter("tx")))

LateNext == RadioNext \/ LateTx

\* the interrupts the layer above enables with enable_interrupt(intr)
InterruptInputs == {{"DISABLED"}}

\* enable_interrupt is a register write of the layer above and is not counted
\* among the MaxCalls operations
EnableInterrupt ==
    /\ Stepped
    /\ \E intr \in InterruptInputs :
           Commit(enable_interrupt(Enter("enable_interrupt"), intr))

EnableNext == RadioNext \/ EnableInterrupt

\* the driver with the layer above enabling single interrupts as well
SpecEnable == Init /\ [][EnableNext]_vars

\* the driver with the loop of handle_address_event taken turn by turn
SpecSpin == Init /\ [][SpinNext]_vars /\ SpinFairness

\* the same with a sender that always transmits in the end
SpecSpinAir == SpecSpin /\ WF_vars(SpinAir)

\* the driver with the longer runs that end in a late transmission
SpecLate == Init /\ [][LateNext]_vars

\* the hopping engine on its own: the radio is left as constructed
InitHop == HopInit /\ RadioInit

SpecHop == InitHop /\ [][HopNext]_vars

(***************************************************************************)
(* Properties of the hopping engine, checked under SpecHop                 *)
(***************************************************************************)

\* bit k of a 5-byte channel map, byte 0 bit 0 first
ChmBit(map, k) == (map[(k \div 8) + 1] \div (2 ^ (k % 8))) % 2

DataChannels == 0..(NUMBER_DATA_CHANNELS - 1)

\* the entries of the channel array that are marked used
Marked(channels) == {i \in DOMAIN channels : channels[i] = 1}

\* the entry at place idx (from 0) of the marked entries in ascending order
NthMarked(channels, idx) ==
    CHOOSE x \in Marked(channels) :
        Cardinality({y \in Marked(channels) : y < x}) = idx

LastCall == hist[Len(hist)]

Channel(i) == [kind |-> "channel", index |-> i]

ValidHop == conn.hop_increment \in 5..16

UsedDataChannels == {k \in DataChannels : conn.channels[k] = 1}

\* C3: one call of next_channel() from last_unmapped_channel in 0..36 stores
\* u = (last_unmapped_channel + hop_increment) mod 37 and returns channel u
\* when u is marked used, and otherwise the entry u mod number_used_channels
\* of the ascending list of the entries marked used.
C3_NextChannelStep ==
    (Len(hist) > 0 /\ LastCall.before \in DataChannels) =>
        LET u == (LastCall.before + conn.hop_increment) % 37
        IN  /\ LastCall.after = u
            /\ conn.last_unmapped_channel = u
            /\ conn.channels[u] = 1 => ret = Channel(u)
            /\ (conn.channels[u] # 1 /\ conn.number_used_channels > 0) =>
                   ret = Channel(NthMarked(conn.channels,
                                           u % conn.number_used_channels))

C3_Witness ==
    /\ Len(hist) > 0
    /\ conn.channels[conn.last_unmapped_channel] # 1
    /\ ret.kind = "channel"
    /\ ret.index > conn.last_unmapped_channel
    /\ LastCall.before + conn.hop_increment >= 37

\* C4: with at least 2 used channels and a hop increment in 5..16, every
\* call of next_channel() returns a data channel 0..36 that the current map
\* marks used: never an advertising channel, never a failure.
C4_ReturnsUsedDataChannel ==
    (Cardinality(UsedDataChannels) >= 2 /\ ValidHop /\ Len(hist) > 0) =>
        /\ ret.kind = "channel"
        /\ ret.index \in UsedDataChannels

\* C5: with a valid hop increment, any 37 consecutive calls with the map
\* unchanged return every data channel marked used at least once.
C5_Coverage ==
    ValidHop =>
        \A first \in 1..Len(hist) :
            first + 36 <= Len(hist) =>
                \A k \in UsedDataChannels :
                    \E i \in first..(first + 36) : hist[i].channel = Channel(k)

C5_Witness ==
    /\ ValidHop
    /\ Len(hist) = HistLen
    /\ Cardinality(UsedDataChannels) \in 2..36
    /\ \E i \in 1..Len(hist) : hist[i].after \notin UsedDataChannels

\* C6: the results repeat with period 37: call n+37 returns what call n
\* returned, and last_unmapped_channel after 37 calls is what it was before
\* them.
C6_Period ==
    /\ Len(hist) >= 37 => hist[37].after = hist[1].before
    /\ Len(hist) = HistLen =>
           /\ hist[HistLen].channel = hist[1].channel
           /\ hist[HistLen].after = hist[1].after
           /\ conn.last_unmapped_channel = hist[2].before

C6_Witness ==
    /\ Len(hist) = HistLen
    /\ ValidHop
    /\ hist[1].channel.kind = "channel"
    /\ hist[1].channel.index # hist[1].after
    /\ hist[2].channel # hist[1].channel

Results == [i \in 1..Len(hist) |-> hist[i].channel.index]

IsPrefixOf(s, t) ==
    \A i \in 1..Len(s) : i <= Len(t) => s[i] = t[i]

\* C7: from a freshly constructed ConnectionData, hop 5 over all 37 channels
\* gives 5, 10, 15, 20, 25, 30, 35, 3, 8; hop 7 over channels 0..31 gives
\* 7, 14, 21, 28, 3; hop 16 over channels {0, 4, 8, 12} gives 0 first.
C7_ReferenceSequences ==
    fresh =>
        /\ (chm = <<255, 255, 255, 255, 31>> /\ conn.hop_increment = 5) =>
               IsPrefixOf(Results, <<5, 10, 15, 20, 25, 30, 35, 3, 8>>)
        /\ (chm = <<255, 255, 255, 255, 0>> /\ conn.hop_increment = 7) =>
               IsPrefixOf(Results, <<7, 14, 21, 28, 3>>)
        /\ (chm = <<17, 17, 0, 0, 0>> /\ conn.hop_increment = 16) =>
               IsPrefixOf(Results, <<0>>)

C7_Witness ==
    /\ fresh
    /\ chm = <<255, 255, 255, 255, 0>>
    /\ conn.hop_increment = 7
    /\ Len(hist) = 5
    /\ ret = Channel(3)

\* C8: after new and after update_lldata, channel k (0..36) is marked used
\* exactly when bit k mod 8 of chm[k div 8] is 1, and number_used_channels
\* is the number of set bits among those 37 bits.
C8_ExpandCountsDataChannels ==
    /\ \A k \in DataChannels : (conn.channels[k] = 1) <=> (ChmBit(chm, k) = 1)
    /\ conn.number_used_channels =
           Cardinality({k \in DataChannels : ChmBit(chm, k) = 1})

(***************************************************************************)
(* The radio driver: claims                                                *)
(***************************************************************************)

\* the entries of the last operation's log where the state field is set
StateSets == {i \in 1..Len(log) : log[i].ev = "state.set"}

\* after entry i the operation sets up a further transmission or reception
Started(i) ==
    \E j \in StateSets : j > i /\ log[j].res \in {"TX", "RX"}

\* C1: at every point where the driver sets its state field to TX or RX, the
\* hardware state register reads Disabled.
C1_EntersFromDisabled ==
    \A i \in StateSets :
        log[i].res \in {"TX", "RX"} => log[i].regs.state = RADIO_STATE_DISABLE

\* the TX end was handled, with no further transmission or reception
TxEndHandled ==
    \E i \in 1..Len(log) : log[i].ev = "handle_tx_end_event" /\ ~Started(i)

\* the address handler dropped the frame before receive_start
FrameAborted ==
    \E i \in 1..Len(log) :
        /\ log[i].ev = "handle_address_event"
        /\ ~\E j \in 1..Len(log) : j > i /\ log[j].ev = "receive_start"

\* the frame's end was handled, with no further transmission or reception
FrameEndHandled ==
    \E i \in 1..Len(log) : log[i].ev = "receive_end" /\ ~Started(i)

\* C2: every change of the state field away from TX or RX goes to
\* Initialized (never TX -> RX or RX -> TX), and once a transmission or
\* reception has finished (TX end handled, frame aborted, frame end handled
\* with no follow-up) the state field is Initialized.
C2_LeavesToInitialized ==
    /\ \A i \in StateSets :
           (log[i].state \in {"TX", "RX"} /\ log[i].res # log[i].state) =>
               log[i].res = "Initialized"
    /\ (outcome = "ok" /\ (TxEndHandled \/ FrameAborted \/ FrameEndHandled)) =>
           radio.state = "Initialized"

TxPowerProbe == TxPowerLevels \cup {1, 5, 128, 255}

\* C10: set_tx_power(v) returns SUCCESS and stores v exactly when v is a
\* supported level; for any other v it returns ENOSUPPORT and leaves the
\* tx_power field, the driver state and every register unchanged.
C10_SetTxPower ==
    \A v \in TxPowerProbe :
        LET m == Enter("set_tx_power")
            r == config_set_tx_power(m, v)
            returned == r.log[Len(r.log)].res
        IN  /\ r.regs = m.regs
            /\ r.ppi = m.ppi
            /\ r.outcome = "ok"
            /\ IF v \in TxPowerLevels
               THEN /\ returned = "SUCCESS"
                    /\ r.radio = [m.radio EXCEPT !.tx_power = v]
               ELSE /\ returned = "ENOSUPPORT"
                    /\ r.radio = m.radio

\* set_tx_power(4) has stored 4 and a later set_tx_power(1) was refused
C10_Witness ==
    /\ Len(log) = 2
    /\ log[1].res = "set_tx_power"
    /\ log[2].res = "ENOSUPPORT"
    /\ radio.tx_power = 4

\* access addresses, channels and CRC initial values tried against
\* set_channel and set_access_address
AccessAddressProbe ==
    {<<36489, 48854>>, <<0, 0>>, <<65535, 65535>>, <<255, 65280>>}

ChannelProbe == {from_channel_index(0), from_channel_index(39)}

CrcInitProbe == {5592405, 0}

\* the registers of r hold aa split: PREFIX0[7:0] = aa[31:24], the rest of
\* PREFIX0 as in m, BASE0 = aa[23:0] followed by a zero byte
SplitIn(m, r, aa) ==
    LET b3 == aa[1] \div 256
        b2 == aa[1] % 256
        b1 == aa[2] \div 256
        b0 == aa[2] % 256
    IN  /\ r.regs.prefix0 % 256 = b3
        /\ r.regs.prefix0 \div 256 = m.regs.prefix0 \div 256
        /\ r.regs.base0 = <<b2 * 256 + b1, b0 * 256>>

\* C11: for every access address aa, set_channel and set_access_address leave
\* prefix0[7:0] = aa bits 31..24 with prefix0 bits 31..8 unchanged and
\* base0 = (aa * 256) mod 2^32; set_channel leaves crcinit = the given
\* crc_init and datawhiteiv = the channel index; aa = 0x8E89BED6 gives
\* prefix0[7:0] = 0x8E and base0 = 0x89BED600.
C11_AccessAddressSplit ==
    /\ \A aa \in AccessAddressProbe :
           LET m == Enter("set_access_address")
           IN  SplitIn(m, set_access_address(m, aa), aa)
    /\ regs.state = RADIO_STATE_DISABLE =>
           \A aa \in AccessAddressProbe, c \in ChannelProbe,
              ci \in CrcInitProbe :
               LET m == Enter("set_channel")
                   r == set_channel(m, c, aa, ci)
               IN  /\ SplitIn(m, r, aa)
                   /\ r.regs.crcinit = ci
                   /\ r.regs.datawhiteiv = c.index
    /\ LET r == set_access_address(Enter("set_access_address"),
                                   <<36489, 48854>>)
       IN  /\ r.regs.prefix0 % 256 = 142
           /\ r.regs.base0 = <<35262, 54784>>

\* set_channel(37, 0x8E89BED6, 0x555555) has returned
C11_Witness ==
    /\ log # << >>
    /\ log[1].res = "set_channel"
    /\ outcome = "ok"
    /\ regs.prefix0 = 142
    /\ regs.base0 = <<35262, 54784>>
    /\ regs.crcinit = 5592405
    /\ regs.datawhiteiv = 37

\* C12: set_channel called while the hardware state register is not Disabled
\* fails fatally before any effect (channel field, frequency, datawhiteiv,
\* prefix0, base0 and crcinit unchanged); called while it is Disabled it
\* never fails.
C12_SetChannelAsserted ==
    \A aa \in AccessAddressInputs, c \in ChannelProbe, ci \in CrcInitInputs :
        LET m == Enter("set_channel")
            r == set_channel(m, c, aa, ci)
        IN  IF regs.state # RADIO_STATE_DISABLE
            THEN /\ r.outcome = "panic"
                 /\ r.radio = m.radio
                 /\ r.regs = m.regs
            ELSE /\ r.outcome = "ok"
                 /\ r.radio.channel = c

\* set_channel was called while the peripheral was not Disabled
C12_Witness ==
    /\ log # << >>
    /\ log[1].res = "set_channel"
    /\ outcome = "panic"
    /\ regs.state # RADIO_STATE_DISABLE
    /\ radio.channel.kind = "none"
    /\ regs.base0 = <<0, 0>>

\* the driver state st and the registers rg are programmed for a transmission
TxProgrammed(st, rg) ==
    /\ rg.packetptr = "TX_PAYLOAD"
    /\ st = "TX"
    /\ rg.event_ready = 0 /\ rg.event_end = 0 /\ rg.event_disabled = 0
    /\ rg.shorts = {"READY_START", "END_DISABLE"}
    /\ "DISABLED" \in rg.inten

\* the entries of the last operation's log where task_txen is triggered
TxenTriggers == {i \in 1..Len(log) : log[i].ev = "task_txen"}

\* C13: every call of tx(), direct, through transmit_advertisement or from
\* an interrupt handler, ends with packetptr at the TX buffer, state = TX,
\* events READY/END/DISABLED cleared, shorts = READY->START | END->DISABLE
\* and the DISABLED interrupt enabled, and task_txen is triggered only after
\* all of these writes.
C13_TxProgrammedBeforeTxen ==
    /\ \A i \in TxenTriggers : TxProgrammed(log[i].state, log[i].regs)
    /\ LET r == tx(Enter("tx"))
           a == r.log[Len(r.log)]
       IN  /\ r.outcome = "ok"
           /\ a.ev = "task_txen"
           /\ TxProgrammed(a.state, a.regs)
           /\ TxProgrammed(r.radio.state,
                           [r.regs EXCEPT !.state = a.regs.state])
           /\ r.regs.state \in {a.regs.state, "TXRU"}
    /\ \A ad \in AdvertisementInputs :
           LET r == transmit_advertisement(Enter("transmit_advertisement"),
                                           ad.buf, ad.len)
           IN  /\ r.outcome = "ok"
               /\ r.log[Len(r.log)].ev = "task_txen"
               /\ TxProgrammed(r.radio.state, r.regs)

\* an interrupt handler has started a transmission with tx()
C13_Witness ==
    /\ log # << >>
    /\ log[1].res = "handle_interrupt"
    /\ TxenTriggers # {}
    /\ outcome = "ok"
    /\ radio.state = "TX"
    /\ regs.state = "TXRU"

\* the driver state st, the registers rg and the PPI channels ch are
\* programmed for a reception
RxProgrammed(st, rg, ch) ==
    /\ rg.packetptr = "RX_PAYLOAD"
    /\ st = "RX"
    /\ 20 \notin ch
    /\ rg.bcc = 8
    /\ rg.event_address = 0 /\ rg.event_devmatch = 0 /\ rg.event_rssiend = 0
    /\ rg.crcok = 0 /\ rg.bcmatch = 0
    /\ rg.shorts = {"READY_START", "END_DISABLE", "ADDRESS_BCSTART"}
    /\ rg.inten = {"ADDRESS"}

\* the entries of the last operation's log where task_rxen is triggered
RxenTriggers == {i \in 1..Len(log) : log[i].ev = "task_rxen"}

\* C14: every call of rx(), direct or through receive_advertisement,
\* whatever interrupts were enabled before it, ends with packetptr at the
\* RX buffer, state = RX, PPI CH20 disabled, bcc = 8, events
\* ADDRESS/DEVMATCH/RSSIEND/CRCOK/BCMATCH cleared, shorts = READY->START |
\* END->DISABLE | ADDRESS->BCSTART and ADDRESS the only enabled radio
\* interrupt, and task_rxen is triggered only after these writes.
C14_RxProgrammedBeforeRxen ==
    /\ \A i \in RxenTriggers :
           RxProgrammed(log[i].state, log[i].regs, log[i].ppi)
    /\ LET r == rx(Enter("rx"))
           a == r.log[Len(r.log)]
       IN  /\ r.outcome = "ok"
           /\ a.ev = "task_rxen"
           /\ RxProgrammed(a.state, a.regs, a.ppi)
           /\ RxProgrammed(r.radio.state,
                           [r.regs EXCEPT !.state = a.regs.state], r.ppi)
           /\ r.regs.state \in {a.regs.state, "RXRU"}
    /\ LET r == receive_advertisement(Enter("receive_advertisement"))
       IN  /\ r.outcome = "ok"
           /\ r.log[Len(r.log)].ev = "task_rxen"
           /\ RxProgrammed(r.radio.state, r.regs, r.ppi)

\* rx() called while a transmission with its DISABLED interrupt is under way
C14_Witness ==
    /\ log # << >>
    /\ log[1].res = "rx"
    /\ RxenTriggers # {}
    /\ calls = 2
    /\ regs.state = "TXRU"
    /\ radio.state = "RX"
    /\ regs.inten = {"ADDRESS"}

\* the last operation called receive_end and was answered with result
ReceiveEndAnswered(result) ==
    \E i \in 1..Len(log) : log[i].ev = "receive_end" /\ log[i].res = result

\* C15: when receive_end returns MoveToTX after a frame whose END timestamp
\* in CC[2] is T, the driver configures the transmission (setup_tx),
\* programs CC[0] = T + 100 for every 32-bit T, and enables PPI CH20.
C15_MoveToTxTurnaround ==
    ReceiveEndAnswered("MoveToTX") =>
        /\ outcome = "ok"
        /\ TxProgrammed(radio.state, regs)
        /\ timer0.cc0 = u32_add(timer0.cc2, 100)[1]
        /\ 20 \in ppi

\* the same for the frames whose END timestamp is below 2^32 - 150
C15_MoveToTxTurnaroundEarly ==
    (ReceiveEndAnswered("MoveToTX") /\ ~u32_add(timer0.cc2, BLE_T_IFS)[2]) =>
        /\ outcome = "ok"
        /\ TxProgrammed(radio.state, regs)
        /\ timer0.cc0 = u32_add(timer0.cc2, 100)[1]
        /\ 20 \in ppi

C15_WitnessEarly ==
    /\ ReceiveEndAnswered("MoveToTX")
    /\ timer0.cc2 = <<0, 1000>>
    /\ timer0.cc0 = <<0, 1100>>

C15_WitnessLate ==
    /\ ReceiveEndAnswered("MoveToTX")
    /\ timer0.cc2 = <<65535, 65416>>
    /\ outcome = "ok"

\* the last operation handled the end of a transmission whose transition
\* was MoveToRX
TxEndMovesToRx ==
    /\ \E i \in 1..Len(log) : log[i].ev = "handle_tx_end_event"
    /\ radio.transition = "MoveToRX"

\* the reception after CC[2] is set up: CC[0] = CC[2] + 105, PPI CH21
RxTurnaroundProgrammed ==
    /\ outcome = "ok"
    /\ radio.state = "RX"
    /\ regs.packetptr = "RX_PAYLOAD"
    /\ "ADDRESS" \in regs.inten
    /\ timer0.cc0 = u32_add(timer0.cc2, 105)[1]
    /\ 21 \in ppi

\* C16: when a MoveToRX turnaround is requested and the packet-end
\* timestamp in CC[2] is T, the driver reconfigures for RX, programs
\* CC[0] = T + 105 for every 32-bit T and enables PPI CH21, both for a
\* transmission ending with transition = MoveToRX and for receive_end
\* returning MoveToRX.
C16_MoveToRxTurnaround ==
    (TxEndMovesToRx \/ ReceiveEndAnswered("MoveToRX")) =>
        RxTurnaroundProgrammed

\* the part of C16 about the end of a transmission
C16_TxEndTurnaround == TxEndMovesToRx => RxTurnaroundProgrammed

\* the same for the timestamps below 2^32 - 150
C16_TxEndTurnaroundEarly ==
    (TxEndMovesToRx /\ ~u32_add(timer0.cc2, BLE_T_IFS)[2]) =>
        RxTurnaroundProgrammed

C16_WitnessEarly ==
    /\ TxEndMovesToRx
    /\ timer0.cc2 = <<0, 1000>>
    /\ timer0.cc0 = <<0, 1105>>

\* the part of C16 about receive_end returning MoveToRX
C16_ReceiveEndTurnaround ==
    ReceiveEndAnswered("MoveToRX") => RxTurnaroundProgrammed

\* what the code does when receive_end returns MoveToRX: the radio is
\* disabled and rx() starts the reception at once, with CH21 off
C16_ReceiveEndRestartsRx ==
    ReceiveEndAnswered("MoveToRX") =>
        /\ outcome = "ok"
        /\ radio.state = "RX"
        /\ RxenTriggers # {}
        /\ 21 \notin ppi

\* the entries of the last operation's log where the rx_client is called
ClientCalls ==
    {i \in 1..Len(log) : log[i].ev \in {"receive_start", "receive_end"}}

\* the handler failed in RX_PAYLOAD[1] + 2, before it could call the client
LengthPanics ==
    {i \in 2..Len(log) :
        /\ log[i].ev = "panic"
        /\ log[i].res = "attempt to add with overflow"
        /\ log[i - 1].ev \in {"handle_address_event", "handle_rx_end_event"}}

\* C18: for every value of the received LENGTH byte RX_PAYLOAD[1] in 0..255
\* the total_len passed to receive_start and receive_end is
\* RX_PAYLOAD[1] + 2 as an integer (2..257): the 8-bit sum neither wraps
\* nor fails.
C18_TotalLenExact ==
    /\ \A i \in ClientCalls : log[i].len = RX_PAYLOAD[1] + 2
    /\ LengthPanics = {}

\* the same of the sum itself, whatever frame was received last
C18_TotalLenOfEveryByte ==
    \A L \in 0..255 :
        total_len([Machine EXCEPT !.RX_PAYLOAD[1] = L]) = {<<L + 2, FALSE>>}

\* the same for the frames whose LENGTH byte is at most 253
C18_TotalLenShort ==
    /\ RX_PAYLOAD[1] <= 253 =>
           /\ \A i \in ClientCalls : log[i].len = RX_PAYLOAD[1] + 2
           /\ LengthPanics = {}
    /\ \A L \in 0..253 :
           total_len([Machine EXCEPT !.RX_PAYLOAD[1] = L]) = {<<L + 2, FALSE>>}

C18_WitnessShort ==
    /\ \E i \in ClientCalls : log[i].ev = "receive_end" /\ log[i].len = 12
    /\ RX_PAYLOAD[1] = 10

C18_WitnessWrapped ==
    /\ \E i \in ClientCalls : log[i].ev = "receive_start" /\ log[i].len = 0
    /\ RX_PAYLOAD[1] = 254

\* the END event of the frame on air was handled by the last operation
EndHandled == \E i \in 1..Len(log) : log[i].ev = "handle_rx_end_event"

\* every receive_end of the last operation carries SUCCESS exactly when the
\* crcok register read 1
CrcDelivered ==
    \A i \in 1..Len(log) :
        log[i].ev = "receive_end" =>
            /\ log[i].crc \in {"SUCCESS", "FAIL"}
            /\ (log[i].crc = "SUCCESS") <=> (log[i].regs.crcok = 1)

\* the rx_client calls of a kept frame: one receive_start and, once the END
\* event is handled, one receive_end, both with LENGTH + 2
KeptFramePaired ==
    frame.kept =>
        /\ frame.starts = 1
        /\ frame.start_len = RX_PAYLOAD[1] + 2
        /\ frame.ends <= 1
        /\ frame.ends = 1 => frame.end_len = RX_PAYLOAD[1] + 2
        /\ EndHandled => frame.ends = 1

\* C17: for every received frame the client keeps, the rx_client observes
\* exactly one receive_start(buf, L + 2) followed, at the END event, by
\* exactly one receive_end(buf, L + 2, crc), where L is the LENGTH byte
\* RX_PAYLOAD[1] and crc is SUCCESS exactly when crcok reads 1 (FAIL is
\* delivered, not dropped); receive_end is never invoked for a frame
\* without a preceding receive_start for it.
C17_StartThenEnd ==
    /\ KeptFramePaired
    /\ CrcDelivered
    /\ ~frame.orphan

\* a kept frame of LENGTH 10 whose CRC failed was started and ended once
C17_PairedFrame ==
    /\ frame.kept
    /\ frame.starts = 1 /\ frame.start_len = 12
    /\ frame.ends = 1 /\ frame.end_len = 12
    /\ \E i \in 1..Len(log) : log[i].ev = "receive_end" /\ log[i].crc = "FAIL"

\* the entries of the last operation's log where receive_start answered
\* SkipFrame
Skips ==
    {i \in 1..Len(log) :
        log[i].ev = "receive_start" /\ log[i].res = "SkipFrame"}

\* what advertisement_done answered after entry i, GoToSleep with no
\* advertisement_client to ask
DoneAnswer(i) ==
    IF Len(log) >= i + 3 /\ log[i + 3].ev = "advertisement_done"
    THEN log[i + 3].res
    ELSE "GoToSleep"

\* what the handler does after every SkipFrame of the last operation
SkipHandled ==
    /\ \A i \in Skips :
           /\ Len(log) >= i + 2
           /\ log[i + 1].ev = "task_disable"
           /\ log[i + 1].regs.inten = {} /\ log[i + 1].regs.shorts = {}
           /\ log[i + 2].ev = "state.set" /\ log[i + 2].res = "Initialized"
           /\ radio.advertisement_client =>
                  /\ Len(log) >= i + 3
                  /\ log[i + 3].ev = "advertisement_done"
                  /\ log[i + 3].state = "Initialized"
                  /\ log[i + 3].regs.inten = {}
           /\ ~radio.advertisement_client =>
                  \A j \in (i + 1)..Len(log) : log[j].ev # "advertisement_done"
           /\ IF DoneAnswer(i) = "TX"
              THEN /\ Len(log) = i + 5
                   /\ log[i + 4].ev = "state.set" /\ log[i + 4].res = "TX"
                   /\ log[i + 5].ev = "task_txen"
                   /\ radio.state = "TX"
              ELSE /\ TxenTriggers = {}
                   /\ radio.state = "Initialized"
                   /\ regs.inten = {}
           /\ \A j \in (i + 1)..Len(log) : log[j].ev # "receive_end"
           /\ outcome = "ok"

\* C19: when receive_start returns SkipFrame the driver at once runs
\* disable_radio (all interrupts disabled, shorts cleared, task_disable
\* triggered, state = Initialized), then asks the advertisement_client's
\* advertisement_done; it starts a new tx() exactly when the answer is TX
\* and otherwise stays in Initialized with no interrupt enabled;
\* receive_end is not called for the skipped frame.
C19_SkipFrame ==
    /\ SkipHandled
    /\ (frame.starts >= 1 /\ ~frame.kept) => frame.ends = 0

\* the same where the END interrupt was not enabled when the handler began
C19_SkipFrameEndOff ==
    (log # << >> /\ "END" \notin log[1].regs.inten) => SkipHandled

\* a skipped frame after which advertisement_done asked for a transmission
C19_Witness ==
    /\ Skips # {}
    /\ \E i \in Skips : DoneAnswer(i) = "TX"
    /\ radio.state = "TX"
    /\ frame.starts = 1 /\ ~frame.kept

\* a skipped frame after which the driver went to sleep
C19_WitnessSleep ==
    /\ Skips # {}
    /\ \E i \in Skips : DoneAnswer(i) = "RespondAfterTifs"
    /\ radio.state = "Initialized"
    /\ regs.inten = {}

\* the PPI channels disable_radio disables
DisabledChannels == {20, 21, 23, 25, 31}

\* the entries of the last operation's log where task_disable is triggered
DisableTriggers == {i \in 1..Len(log) : log[i].ev = "task_disable"}

\* C20: disable_radio, from any driver state, disables all radio
\* interrupts, sets shorts to 0, triggers task_disable, disables PPI
\* channels 20, 21, 23, 25 and 31 and sets state = Initialized; run twice
\* in a row it leaves the same driver state, registers and PPI enable set
\* as run once.
C20_DisableRadio ==
    /\ LET once  == disable_radio(Machine)
           twice == disable_radio(once)
           HwOff(st) ==
               IF st \in HwRxStates THEN RADIO_STATE_RXDISABLE
               ELSE IF st \in HwTxStates THEN RADIO_STATE_TXDISABLE
               ELSE st
       IN  /\ once.outcome = "ok"
           /\ once.regs.inten = {}
           /\ once.regs.shorts = {}
           /\ Len(once.log) = 2
           /\ once.log[1].ev = "task_disable"
           /\ once.regs.state = HwOff(regs.state)
           /\ once.ppi = ppi \ DisabledChannels
           /\ once.radio = [radio EXCEPT !.state = "Initialized"]
           /\ twice.radio = once.radio
           /\ twice.regs = once.regs
           /\ twice.ppi = once.ppi
           /\ twice.outcome = "ok"
    /\ \A i \in DisableTriggers :
           /\ log[i].regs.inten = {} /\ log[i].regs.shorts = {}
           /\ Len(log) > i
           /\ log[i + 1].ev = "state.set" /\ log[i + 1].res = "Initialized"
           /\ log[i + 1].ppi \cap DisabledChannels = {}

\* an interrupt handler has run disable_radio on a radio that was receiving
\* with a timer-started channel enabled
C20_Witness ==
    /\ DisableTriggers # {}
    /\ \E i \in DisableTriggers :
           /\ log[i].state = "RX"
           /\ log[i].regs.state = "RX"
           /\ log[i].ppi \cap DisabledChannels # {}
    /\ radio.state = "Initialized"
    /\ regs.inten = {}
    /\ regs.shorts = {}
    /\ ppi \cap DisabledChannels = {}

\* buffers and lengths handed to set_advertisement_data
AdvertisementProbe ==
    {[buf |-> <<9, 8, 7>>, len |-> 0], [buf |-> <<9, 8, 7>>, len |-> 1],
     [buf |-> <<66, 1, 7>>, len |-> 2], [buf |-> <<5, 6, 7>>, len |-> 3],
     [buf |-> <<4, 4>>, len |-> 2]}

\* C21: set_advertisement_data(buf, len) with len <= length of buf and
\* len <= the TX buffer size copies buf[0..len] into TX_PAYLOAD[0..len],
\* leaves TX_PAYLOAD[len..], the RX buffer, the driver state and all
\* registers unchanged, and returns the caller's buffer unchanged.
C21_SetAdvertisementData ==
    \A a \in AdvertisementProbe :
        (a.len <= Len(a.buf) /\ a.len <= PAYLOAD_LEN) =>
            LET m == Enter("set_advertisement_data")
                r == set_advertisement_data(m, a.buf, a.len)
            IN  /\ r.outcome = "ok"
                /\ \A i \in 0..(PAYLOAD_LEN - 1) :
                       r.TX_PAYLOAD[i] = IF i < a.len THEN a.buf[i + 1]
                                        ELSE TX_PAYLOAD[i]
                /\ r.RX_PAYLOAD = RX_PAYLOAD
                /\ r.radio = radio
                /\ r.regs = regs
                /\ r.ppi = ppi
                /\ r.timer0 = timer0
                /\ replace_radio_buffer_returns(a.buf, a.len) = a.buf

\* set_advertisement_data has copied two bytes while a transmission was
\* set up, and left the third byte and the driver as they were
C21_Witness ==
    /\ log # << >>
    /\ log[1].res = "set_advertisement_data"
    /\ outcome = "ok"
    /\ TX_PAYLOAD[0] = 66 /\ TX_PAYLOAD[1] = 1 /\ TX_PAYLOAD[2] = 0
    /\ radio.state = "TX"
    /\ regs.packetptr = "TX_PAYLOAD"

\* C22: in every reachable state in which a transmission can start
\* (task_txen triggered by software, or PPI CH20 enabled) packetptr holds
\* the address of the TX buffer and the driver state is TX; whenever a
\* reception can start (task_rxen triggered, or PPI CH21 enabled) packetptr
\* holds the address of the RX buffer and the driver state is RX.
C22_BufferMatchesDirection ==
    /\ \A i \in TxenTriggers :
           log[i].regs.packetptr = "TX_PAYLOAD" /\ log[i].state = "TX"
    /\ 20 \in ppi => (regs.packetptr = "TX_PAYLOAD" /\ radio.state = "TX")
    /\ \A i \in RxenTriggers :
           log[i].regs.packetptr = "RX_PAYLOAD" /\ log[i].state = "RX"
    /\ 21 \in ppi => (regs.packetptr = "RX_PAYLOAD" /\ radio.state = "RX")

\* the part of C22 about software triggers
C22_SoftwareStarts ==
    /\ \A i \in TxenTriggers :
           log[i].regs.packetptr = "TX_PAYLOAD" /\ log[i].state = "TX"
    /\ \A i \in RxenTriggers :
           log[i].regs.packetptr = "RX_PAYLOAD" /\ log[i].state = "RX"

\* advertisement_done answered RespondAfterTifs: CH20 is enabled with the
\* driver in Initialized and packetptr still at the RX buffer
C22_RespondAfterTifs ==
    /\ \E i \in 1..Len(log) :
           log[i].ev = "advertisement_done" /\ log[i].res = "RespondAfterTifs"
    /\ outcome = "ok"
    /\ 20 \in ppi
    /\ radio.state = "Initialized"
    /\ regs.packetptr = "RX_PAYLOAD"

\* the timer has started a transmission from the RX buffer
C22_TransmitsFromRxBuffer ==
    /\ regs.state \in HwTxStates
    /\ regs.packetptr = "RX_PAYLOAD"
    /\ radio.state = "Initialized"
    /\ timer0.events_compare0 = 1

\* the entries of the last operation's log where a branch of
\* handle_interrupt begins
BranchEntries(ev) == {i \in 1..Len(log) : log[i].ev = ev}

\* handle_address_event returned true: it got past its loop, to the
\* rx_client
AddressReturnedTrue ==
    \E i \in 1..Len(log) :
        \/ log[i].ev = "receive_start"
        \/ log[i].ev = "panic" /\ log[i].res = "No rx_client?"
               /\ log[i - 1].ev = "handle_address_event"

\* C23: within a single run of handle_interrupt, ADDRESS handling comes
\* before DISABLED handling, which comes before END handling, each only if
\* its interrupt was enabled at handler entry and its event flag is set; if
\* the address handler returns true the DISABLED branch is not run in that
\* pass.
C23_BranchOrder ==
    (log # << >> /\ log[1].res = "handle_interrupt") =>
        LET entry == log[1].regs
            A == BranchEntries("handle_address_event")
            D == BranchEntries("disabled_branch")
            E == BranchEntries("handle_rx_end_event")
        IN  /\ Cardinality(A) <= 1 /\ Cardinality(D) <= 1
            /\ Cardinality(E) <= 1
            /\ \A a \in A, d \in D : a < d
            /\ \A d \in D, e \in E : d < e
            /\ \A a \in A, e \in E : a < e
            /\ \A a \in A : /\ "ADDRESS" \in entry.inten
                             /\ log[a].regs.event_address = 1
            /\ \A d \in D : /\ "DISABLED" \in entry.inten
                             /\ log[d].regs.event_disabled = 1
            /\ \A e \in E : /\ "END" \in entry.inten
                             /\ log[e].regs.event_end = 1
            /\ ("ADDRESS" \in entry.inten /\ entry.event_address = 1) =>
                   A # {}
            /\ AddressReturnedTrue => D = {}

\* one run of handle_interrupt took the ADDRESS and then the END branch,
\* with DISABLED enabled at entry, its flag set, and its branch masked
C23_Witness ==
    /\ log # << >>
    /\ log[1].res = "handle_interrupt"
    /\ "DISABLED" \in log[1].regs.inten
    /\ BranchEntries("handle_address_event") # {}
    /\ BranchEntries("handle_rx_end_event") # {}
    /\ AddressReturnedTrue
    /\ regs.event_disabled = 1
    /\ outcome = "ok"

\* one run of handle_interrupt took the ADDRESS and then the DISABLED branch
C23_WitnessDisabled ==
    /\ log # << >>
    /\ log[1].res = "handle_interrupt"
    /\ BranchEntries("handle_address_event") # {}
    /\ BranchEntries("disabled_branch") # {}

\* the entries of the last operation's log where timer_expired is delivered
TimerExpiries == BranchEntries("timer_expired")

\* the DISABLED branch applied to the state with the driver state st, the
\* DISABLED interrupt enabled and its flag set
DisabledIn(st) ==
    disabled_branch([Enter("handle_interrupt") EXCEPT
                         !.radio.state = st, !.regs.event_disabled = 1],
                    {"DISABLED"})

\* C24: when handle_interrupt handles a DISABLED event, in driver state RX
\* it clears the flag and delivers advertisement_client.timer_expired()
\* without changing the driver state; in Uninitialized it fails fatally; in
\* every other state it runs the TX end path; timer_expired() is delivered
\* in no other situation.
C24_DisabledBranch ==
    /\ \A d \in BranchEntries("disabled_branch") :
           /\ log[d].state = "RX" =>
                  /\ radio.advertisement_client =>
                         /\ Len(log) > d
                         /\ log[d + 1].ev = "timer_expired"
                         /\ log[d + 1].state = "RX"
                         /\ log[d + 1].regs.event_disabled = 0
                  /\ \A j \in (d + 1)..Len(log) :
                         /\ log[j].ev # "handle_tx_end_event"
                         /\ (log[j].ev = "state.set" =>
                                \E e \in (d + 1)..j :
                                    log[e].ev = "handle_rx_end_event")
           /\ log[d].state = "Uninitialized" =>
                  /\ Len(log) = d + 1
                  /\ log[d + 1].ev = "panic"
                  /\ outcome = "panic"
           /\ log[d].state \in {"TX", "Initialized"} =>
                  /\ Len(log) > d
                  /\ log[d + 1].ev = "handle_tx_end_event"
    /\ \A t \in TimerExpiries :
           /\ t > 1
           /\ log[t - 1].ev = "disabled_branch"
           /\ log[t - 1].state = "RX"
           /\ "DISABLED" \in log[1].regs.inten
           /\ log[t - 1].regs.event_disabled = 1
    /\ \A r \in DisabledIn("RX") :
           /\ r.outcome = "ok"
           /\ r.radio = [radio EXCEPT !.state = "RX"]
           /\ r.regs = [regs EXCEPT !.event_disabled = 0]
           /\ (\E i \in 1..Len(r.log) : r.log[i].ev = "timer_expired")
                  <=> radio.advertisement_client
    /\ \A r \in DisabledIn("Uninitialized") : r.outcome = "panic"
    /\ \A st \in {"TX", "Initialized"} :
           /\ DisabledIn(st) # {}
           /\ \A r \in DisabledIn(st) :
                  /\ r.log[3].ev = "handle_tx_end_event"
                  /\ \A i \in 1..Len(r.log) : r.log[i].ev # "timer_expired"

\* a reception window closed: DISABLED handled in RX, timer_expired
\* delivered, the driver still in RX
C24_Witness ==
    /\ TimerExpiries # {}
    /\ radio.state = "RX"
    /\ regs.event_disabled = 0
    /\ regs.state = RADIO_STATE_DISABLE
    /\ outcome = "ok"

\* DISABLED handled in TX: the TX end path
C24_WitnessTxEnd ==
    \E d \in BranchEntries("disabled_branch") :
        log[d].state = "TX" /\ log[d + 1].ev = "handle_tx_end_event"

\* the entries of the last operation's log where handle_address_event gave
\* the frame up
Aborts == BranchEntries("abort")

\* C25: if, after an ADDRESS event, the hardware reaches Disabled before
\* BCMATCH is raised, the address handler aborts the packet: it disables all
\* radio interrupts, sets shorts to 0, returns false, and invokes no client
\* callback for that packet.
C25_AddressAbort ==
    /\ \A a \in BranchEntries("handle_address_event") :
           (/\ Len(log) > a
            /\ log[a + 1].regs.bcmatch = 0
            /\ log[a + 1].regs.state = RADIO_STATE_DISABLE
            /\ log[a + 1].ev # "panic") => log[a + 1].ev = "abort"
    /\ \A b \in Aborts :
           /\ log[b - 1].ev = "handle_address_event"
           /\ log[b].regs.bcmatch = 0
           /\ log[b].regs.state = RADIO_STATE_DISABLE
           /\ log[b].regs.inten = {}
           /\ log[b].regs.shorts = {}
           /\ log[b].state = log[b - 1].state
           /\ ("DISABLED" \in log[1].regs.inten
                   /\ log[b].regs.event_disabled = 1)
                  => Len(log) > b /\ log[b + 1].ev = "disabled_branch"

\* no client callback is made by any later branch or handler for a frame the
\* address handler gave up, until the next ADDRESS event
AbortedFrameStaysSilent == frame.aborted => frame.revived = ""

\* the address handler gave a frame up and handle_interrupt returned
C25_Witness ==
    /\ log # << >>
    /\ log[1].res = "handle_interrupt"
    /\ Aborts # {}
    /\ frame.aborted
    /\ regs.inten = {}
    /\ regs.shorts = {}
    /\ outcome = "ok"

\* the entries of the last operation's log after which the driver turns to
\* the advertisement client: receive_start answered SkipFrame, receive_end
\* answered None, DISABLED handled in RX
AdvertisementClientPoints ==
    {i \in 1..Len(log) :
        \/ log[i].ev = "receive_start" /\ log[i].res = "SkipFrame"
        \/ log[i].ev = "receive_end" /\ log[i].res = "None"
        \/ log[i].ev = "disabled_branch" /\ log[i].state = "RX"}

\* the entries of the last operation's log where the driver turns to the
\* rx_client: handle_rx_end_event, and handle_address_event past its loop
RxClientPoints ==
    {i \in 1..Len(log) :
        \/ log[i].ev = "handle_rx_end_event"
        \/ /\ log[i].ev = "handle_address_event"
           /\ Len(log) > i => log[i + 1].ev # "abort"
           /\ outcome # "hang"}

\* with no rx_client installed, handle_address_event and
\* handle_rx_end_event fail fatally
MissingRxClientFatal ==
    (~radio.rx_client /\ RxClientPoints # {}) => outcome = "panic"

\* C26: whenever the driver reaches a point where a client callback would
\* fire (receive_start, receive_end, advertisement_done, timer_expired) and
\* the corresponding client (rx_client or advertisement_client) has not been
\* installed, the driver fails fatally instead of continuing.
C26_MissingClientFatal ==
    /\ MissingRxClientFatal
    /\ (~radio.advertisement_client /\ AdvertisementClientPoints # {})
           => outcome = "panic"

\* a frame was skipped with no advertisement client installed, and the
\* driver went on to sleep
C26_ContinuesWithoutClient ==
    /\ ~radio.advertisement_client
    /\ \E i \in AdvertisementClientPoints : log[i].ev = "receive_start"
    /\ outcome = "ok"
    /\ radio.state = "Initialized"

\* the reception window closed with no advertisement client installed, and
\* nothing was delivered
C26_TimerExpiredDropped ==
    /\ ~radio.advertisement_client
    /\ \E i \in AdvertisementClientPoints : log[i].ev = "disabled_branch"
    /\ outcome = "ok"

\* an interrupt arrived with no rx_client installed: the driver panicked
C26_RxClientPanic ==
    /\ ~radio.rx_client
    /\ RxClientPoints # {}
    /\ outcome = "panic"

\* CH26: RADIO.EVENTS_ADDRESS -> TIMER0.TASKS_CAPTURE[1],
\* CH27: RADIO.EVENTS_END -> TIMER0.TASKS_CAPTURE[2]
CaptureChannels == {26, 27}

\* the operations that begin with ble_initialize
Initializers ==
    {"ble_initialize", "transmit_advertisement", "receive_advertisement"}

\* the last operation ran ble_initialize on the driver as constructed
BroughtUp ==
    /\ log # << >>
    /\ log[1].res \in Initializers
    /\ log[1].state = "Uninitialized"

\* the last operation ran ble_initialize, in whatever driver state
InitializeRan == log # << >> /\ log[1].res \in Initializers

EveryInitializeEnablesCaptures ==
    InitializeRan => CaptureChannels \subseteq ppi

C27_WitnessRepeated ==
    /\ log # << >>
    /\ log[1].res = "ble_initialize"
    /\ log[1].state # "Uninitialized"
    /\ CaptureChannels \subseteq log[1].ppi
    /\ CaptureChannels \subseteq ppi

\* C28: the busy-wait loops terminate under fair hardware, so every call of
\* tx(), rx() and handle_interrupt eventually returns: handle_interrupt,
\* once in the loop of handle_address_event, leaves it.
C28_SpinTerminates == Spinning ~> ~Spinning

\* wait_until_disabled loops in RXDISABLE and TXDISABLE only, and there the
\* peripheral has its step to DISABLED to take
WaitUntilDisabledLeaves ==
    regs.state \in {RADIO_STATE_RXDISABLE, RADIO_STATE_TXDISABLE} =>
        /\ HwDisabled(Machine) # {}
        /\ wait_until_disabled(Machine).regs.state = RADIO_STATE_DISABLE

\* the loop of handle_address_event is entered with no frame on the air, the
\* receiver on, BCMATCH not raised: only a sender can end it
C28_WaitsForSender ==
    /\ Spinning
    /\ ~LoopExits
    /\ OwnSteps(AtLoop) = {}
    /\ AirSteps(AtLoop) # {}

\* the loop can never be left: no step of the peripheral or of a sender
\* leads out of it
C28_Stuck ==
    /\ Spinning
    /\ ~LoopExits
    /\ OwnSteps(AtLoop) = {}
    /\ AirSteps(AtLoop) = {}

\* CH20: TIMER0.EVENTS_COMPARE[0] -> RADIO.TXEN,
\* CH21: TIMER0.EVENTS_COMPARE[0] -> RADIO.RXEN
CompareChannels == {20, 21}

\* C29: in every reachable state, over any interleaving of public
\* operations, interrupts and client return values, PPI channels 20 and 21
\* are never both enabled, so a single CC[0] compare event can never trigger
\* both TXEN and RXEN.
C29_CompareChannelsExclusive ==
    /\ ~(CompareChannels \subseteq ppi)
    /\ \A i \in 1..Len(log) : ~(CompareChannels \subseteq log[i].ppi)
    /\ \A c \in HwCompare(Machine) :
           \/ c.regs.state = regs.state
           \/ c.regs.state = (IF 20 \in ppi THEN "TXRU" ELSE "RXRU")

\* a frame ended while channel 21 was armed, and the handler armed channel
\* 20 for the answer
C29_Witness ==
    /\ log # << >>
    /\ log[1].res = "handle_interrupt"
    /\ 21 \in log[1].ppi
    /\ 20 \in ppi
    /\ 21 \notin ppi
    /\ outcome = "ok"

\* the TX end path armed channel 21 while channel 20 was armed
C29_WitnessRx ==
    /\ log # << >>
    /\ 20 \in log[1].ppi
    /\ 21 \in ppi
    /\ 20 \notin ppi

\* the last operation was a transmit_advertisement that started its
\* transmission, after a set_tx_power that returned SUCCESS (of the levels
\* the layer above sets, the only supported one differs from the level of the
\* constructor)
TransmittedAfterSetTxPower ==
    /\ log # << >>
    /\ log[1].res = "transmit_advertisement"
    /\ radio.tx_power # NewRadio.tx_power
    /\ \E i \in 1..Len(log) : log[i].ev = "task_txen"

\* C30: after set_tx_power(p) returns SUCCESS, the next
\* transmit_advertisement starts its transmission with the txpower register
\* equal to p, whether or not the radio had already been initialized before
\* set_tx_power was called.
C30_TxPowerApplied ==
    TransmittedAfterSetTxPower =>
        \A i \in 1..Len(log) :
            log[i].ev = "task_txen" => log[i].regs.txpower = radio.tx_power

\* the same for a radio that transmit_advertisement itself initializes
C30_TxPowerAppliedAtBringUp ==
    (TransmittedAfterSetTxPower /\ log[1].state = "Uninitialized") =>
        \A i \in 1..Len(log) :
            log[i].ev = "task_txen" => log[i].regs.txpower = radio.tx_power

\* set_tx_power before the first initialization: the level is programmed
C30_BeforeInitialize ==
    /\ TransmittedAfterSetTxPower
    /\ log[1].state = "Uninitialized"
    /\ regs.txpower = radio.tx_power

\* set_tx_power on the initialized radio: the transmission starts with the
\* level of the bring-up
C30_StaleTxPower ==
    /\ TransmittedAfterSetTxPower
    /\ log[1].state = "Initialized"
    /\ regs.txpower = NewRadio.tx_power
    /\ outcome = "ok"

====
